---- MODULE Spec2Model ----
(***************************************************************************)
(* A model of the wave.ai local synthesis engine                           *)
(* (packages/agent/src/tools/audioSynthesis.ts), of its peak extractor     *)
(* (tools/waveform.ts), of getMarketData (tools/marketData.ts), of         *)
(* deriveMusicParams (tools/musicParams.ts) and of generateMoment          *)
(* (agent.ts), which calls them in turn.                                   *)
(*                                                                         *)
(* Numbers.  JavaScript numbers are modelled in fixed point:               *)
(*   - frequencies of the key table in centi-Hz (130.81 Hz = 13081),       *)
(*     scale-degree frequencies in milli-Hz;                               *)
(*   - normalized parameters and sample amplitudes in thousandths (Unit);  *)
(*   - NaN is the value NaN below (every table entry is positive).         *)
(***************************************************************************)
EXTENDS Integers, Sequences, FiniteSets, TLC

VARIABLES
    params,            \* MusicParams of the call
    durationSeconds,   \* second argument of synthesizeAudio
    apiKey,            \* process.env.ELEVENLABS_API_KEY is set
    contextSet,        \* currentContext holds instrument, djPreset, marketData
    pc,                \* position of the call
    llmResult,         \* synthesizeAudio: llmResult ("none" before the call)
    remote,            \* requests made and failures met on the remote path
    localRuns,         \* calls of generateFallbackAudio
    result,            \* what the promise of synthesizeAudio settles to
    rootFreq,          \* generateFallbackAudio: const rootFreq
    scale,             \* generateFallbackAudio: const scale (7 frequencies)
    chordProgression,  \* generateFallbackAudio: const chordProgression
    arpPattern,        \* generateFallbackAudio: const arpPattern
    numSamples,        \* generateFallbackAudio: const numSamples
    i,                 \* the loop variable of the render loop
    pcm,               \* <<leftInt, rightInt>> written for the last sample
    replay,            \* the same sample in a second render of the same input
    beat,              \* the clock of the last sample (beatNumber, ...)
    rootsUsed,         \* <<beatNumber, chordRoot>> of the samples so far
    stereo,            \* <<left, right>> of the last sample, not yet quantized
    mix,               \* the voices of the last sample and the indices it read
    wavBuffer,         \* the container built after the loop
    audioBuffer,       \* createWaveform: the audioBuffer argument
    waveform,          \* createWaveform: the WaveformData returned
    compared,          \* createWaveform: a second call, another drumDensity
    market,            \* getMarketData: the call, its requests and outcome
    marketData,        \* generateMoment / deriveMusicParams: marketData
    djPreset,          \* generateMoment / deriveMusicParams: djPreset
    comparedData,      \* deriveMusicParams: the market data of a second call
    comparedParams,    \* deriveMusicParams: the result of the second call
    moment,            \* generateMoment: the call, its steps and outcome
    requests,          \* API server: the POST /api/generate requests
    currentContext,    \* audioSynthesis.ts: let currentContext
    now,               \* Date.now(), in milliseconds
    files,             \* packages/agent/temp: <<file name, generation>>
    moments,           \* API server: const moments
    completed,         \* the successful generations, in completion order
    health,            \* API server: a GET /api/health request
    reply              \* API server: the answer to the last GET of moments

vars == <<params, durationSeconds, apiKey, contextSet, pc, llmResult, remote,
          localRuns, result, rootFreq, scale, chordProgression, arpPattern,
          numSamples, i, pcm, replay, stereo, beat, rootsUsed, mix, wavBuffer, audioBuffer, waveform,
          compared, market, marketData, djPreset, comparedData,
          comparedParams, moment, requests, currentContext, now, files,
          moments, completed, health, reply>>

\* The variables of the API server.
serverVars == <<requests, currentContext, now, files, moments, completed,
                health, reply>>

\* The variables of createWaveform, which the engine leaves alone.
waveVars == <<audioBuffer, waveform, compared>>

\* The variables of deriveMusicParams.
deriveVars == <<marketData, djPreset, comparedData, comparedParams>>

\* The variables of getMarketData and generateMoment.
pipelineVars == <<market, moment, deriveVars>>

\* The variables of synthesizeAudio and generateFallbackAudio.
engineVars == <<apiKey, contextSet, llmResult, remote, localRuns, result,
                rootFreq, scale, chordProgression, arpPattern, numSamples,
                i, pcm, replay, stereo, beat, rootsUsed, mix, wavBuffer>>

\* The variables of the program outside the API server.
programVars == <<params, durationSeconds, pc, engineVars, waveVars,
                 pipelineVars>>

-----------------------------------------------------------------------------
(* Values                                                                  *)

\* The result of arithmetic on a non-number (NaN).
NaN == -1

\* One in the fixed-point representation of amplitudes and parameters.
Unit == 1000

\* Array literals are 0-indexed in the source; At reads a[k] and gives
\* Undefined outside the array, as JavaScript does.
Undefined == -2

At(a, k) == IF k \in 0..(Len(a) - 1) THEN a[k + 1] ELSE Undefined

-----------------------------------------------------------------------------
(* ScaleMapper: getFrequencyFromKey, getScaleFrequencies                   *)

\* const noteFreqs, in centi-Hz.
noteFreqs ==
    [k \in {"C", "C#", "Db", "D", "Dm", "D#", "Eb", "E", "F", "F#", "Gb",
            "G", "G#", "Ab", "A", "Am", "A#", "Bb", "B"} |->
        CASE k = "C"  -> 13081
          [] k = "C#" -> 13859
          [] k = "Db" -> 13859
          [] k = "D"  -> 14683
          [] k = "Dm" -> 14683
          [] k = "D#" -> 15556
          [] k = "Eb" -> 15556
          [] k = "E"  -> 16481
          [] k = "F"  -> 17461
          [] k = "F#" -> 18500
          [] k = "Gb" -> 18500
          [] k = "G"  -> 19600
          [] k = "G#" -> 20765
          [] k = "Ab" -> 20765
          [] k = "A"  -> 22000
          [] k = "Am" -> 22000
          [] k = "A#" -> 23308
          [] k = "Bb" -> 23308
          [] k = "B"  -> 24694]

\* noteFreqs is an object literal: a property read that misses its own
\* properties goes on to Object.prototype, whose members are functions or
\* objects (truthy, and not numbers).
ObjectPrototypeKeys ==
    {"constructor", "toString", "toLocaleString", "valueOf", "hasOwnProperty",
     "isPrototypeOf", "propertyIsEnumerable", "__proto__"}

\* The default of `noteFreqs[key] || 130.81`.
DefaultRoot == 13081

\* getFrequencyFromKey(key): noteFreqs[key] || 130.81.  An inherited member is
\* truthy, so it is returned as it is; NaN stands for it, being what the
\* caller's multiplication makes of it.
getFrequencyFromKey(key) ==
    IF key \in DOMAIN noteFreqs THEN noteFreqs[key]
    ELSE IF key \in ObjectPrototypeKeys THEN NaN
    ELSE DefaultRoot

majorIntervals == <<0, 2, 4, 5, 7, 9, 11>>
minorIntervals == <<0, 2, 3, 5, 7, 8, 10>>

\* Math.pow(2, semitones / 12) in ten-thousandths.
Pow2Twelfth(semitones) ==
    CASE semitones = 0  -> 10000
      [] semitones = 1  -> 10595
      [] semitones = 2  -> 11225
      [] semitones = 3  -> 11892
      [] semitones = 4  -> 12599
      [] semitones = 5  -> 13348
      [] semitones = 6  -> 14142
      [] semitones = 7  -> 14983
      [] semitones = 8  -> 15874
      [] semitones = 9  -> 16818
      [] semitones = 10 -> 17818
      [] semitones = 11 -> 18877

\* root * Math.pow(2, semitones / 12), in milli-Hz.
DegreeFrequency(root, semitones) ==
    IF root = NaN THEN NaN ELSE (root * Pow2Twelfth(semitones)) \div 1000

IntervalsWrongDefault(scaleType) ==
    IF scaleType = "major" THEN majorIntervals ELSE minorIntervals

\* const intervals = scaleType === 'minor' ? minorIntervals : majorIntervals
Intervals(scaleType) ==
    IF scaleType = "minor" THEN minorIntervals ELSE majorIntervals

\* getScaleFrequencies(root, scaleType)
getScaleFrequencies(root, scaleType) ==
    [k \in 1..Len(Intervals(scaleType)) |->
        DegreeFrequency(root, Intervals(scaleType)[k])]

-----------------------------------------------------------------------------
(* Sequencer: the selection of the progression and of the arpeggio         *)

\* A selection whose rising variants differ in their last entry only.
ChordProgressionOneEntry(trendDirection, scaleType) ==
    IF trendDirection = "rising"
    THEN (IF scaleType = "major" THEN <<0, 2, 3, 4>> ELSE <<0, 2, 3, 5>>)
    ELSE IF trendDirection = "falling"
    THEN (IF scaleType = "major" THEN <<4, 3, 2, 0>> ELSE <<5, 4, 2, 0>>)
    ELSE (IF scaleType = "major" THEN <<0, 3, 4, 4>> ELSE <<0, 3, 4, 2>>)

ChordProgressionSameForBoth(trendDirection, scaleType) ==
    IF trendDirection = "rising"
    THEN (IF scaleType = "major" THEN <<0, 2, 3, 4>> ELSE <<0, 2, 4, 5>>)
    ELSE IF trendDirection = "falling"
    THEN (IF scaleType = "major" THEN <<0, 2, 3, 4>> ELSE <<5, 4, 2, 0>>)
    ELSE (IF scaleType = "major" THEN <<0, 3, 4, 4>> ELSE <<0, 3, 4, 2>>)

\* const chordProgression = params.trendDirection === 'rising' ? ... : ...
ChordProgressionFor(trendDirection, scaleType) ==
    IF trendDirection = "rising"
    THEN (IF scaleType = "major" THEN <<0, 2, 3, 4>> ELSE <<0, 2, 4, 5>>)
    ELSE IF trendDirection = "falling"
    THEN (IF scaleType = "major" THEN <<4, 3, 2, 0>> ELSE <<5, 4, 2, 0>>)
    ELSE (IF scaleType = "major" THEN <<0, 3, 4, 4>> ELSE <<0, 3, 4, 2>>)

\* const arpPattern = params.trendDirection === 'rising' ? ... : ...
ArpPatternFor(trendDirection) ==
    IF trendDirection = "rising" THEN <<0, 2, 4, 5, 7, 5, 4, 7>>
    ELSE IF trendDirection = "falling" THEN <<7, 5, 4, 2, 0, 2, 4, 0>>
    ELSE <<0, 2, 4, 2, 0, 4, 2, 4>>

-----------------------------------------------------------------------------
(* Fixed-point arithmetic and the mathematical functions of the loop.      *)
(* Math.sin of an audio-rate oscillator and Math.random are not computed:  *)
(* the action that renders a sample draws them (OscValues, RandomValues).  *)
(* Math.exp, Math.tanh and the two slow sines (filter sweep, stereo width) *)
(* are functions of their argument, computed by rational approximations    *)
(* that keep their range and monotonicity.                                 *)

Abs(x) == IF x < 0 THEN -x ELSE x

\* a * b of two fixed-point numbers, rounded toward zero.
Mul(a, b) ==
    IF (a < 0) = (b < 0) THEN (Abs(a) * Abs(b)) \div Unit
    ELSE -((Abs(a) * Abs(b)) \div Unit)

\* Math.exp(-x) for x >= 0 in thousandths: 1 / (1 + x + x^2/2 + x^3/6),
\* which is 1 at 0, decreasing and positive.
ExpNeg(x) ==
    LET x2 == (x * x) \div Unit
        x3 == (x2 * x) \div Unit
    IN  (Unit * Unit) \div (Unit + x + x2 \div 2 + x3 \div 6)

\* Math.tanh(x): the Pade approximant x(27 + x^2) / (27 + 9 x^2) on |x| < 3
\* and +-1 beyond, odd and non-decreasing, |tanh| <= 1.
Tanh(x) ==
    LET a  == Abs(x)
        a2 == (a * a) \div Unit
        v  == IF a >= 3 * Unit THEN Unit
              ELSE (a * (27 * Unit + a2)) \div (27 * Unit + 9 * a2)
        w  == IF v > Unit THEN Unit ELSE v
    IN  IF x < 0 THEN -w ELSE w

\* pi in thousandths.
PiMilli == 3142

\* Math.sin(x) for x >= 0 in milli-radians (Bhaskara's approximation on a
\* half wave), in thousandths.
SlowSin(x) ==
    LET r == x % (2 * PiMilli)
        h == IF r < PiMilli THEN r ELSE r - PiMilli
        p == h * (PiMilli - h)
        v == (16 * p) \div ((5 * PiMilli * PiMilli - 4 * p) \div Unit)
        w == IF v > Unit THEN Unit ELSE v
    IN  IF r < PiMilli THEN w ELSE -w

-----------------------------------------------------------------------------
(* Sequencer/Clock: lines 273-277 and the sub-divisions of the voices      *)

sampleRate == 44100

\* t = i / sampleRate, in milliseconds (idx is the loop variable i).
TimeMilli(idx) == (idx * 1000) \div sampleRate

\* t * beatsPerSecond = (i / 44100) * (tempo / 60), in thousandths of a beat.
BeatsMilli(idx, tempo) == (idx * tempo) \div 2646

\* x % 1 of a non-negative fixed-point number.
Frac(x) == x % Unit

\* Math.floor(x) of a fixed-point number, as an integer.
Floor(x) == x \div Unit

\* A clock whose bar number does not wrap after four bars.
ClockWithoutWrap(idx, tempo) ==
    LET tb == BeatsMilli(idx, tempo)
        beatNumber == Floor(tb)
    IN  [t          |-> TimeMilli(idx),
         beats      |-> tb,
         beatNumber |-> beatNumber,
         beatPhase  |-> Frac(tb),
         barNumber  |-> beatNumber \div 4,
         beatInBar  |-> beatNumber % 4]

\* Lines 273-277: t, beatNumber, beatPhase, barNumber, beatInBar.
Clock(idx, tempo) ==
    LET tb == BeatsMilli(idx, tempo)
        beatNumber == Floor(tb)
    IN  [t          |-> TimeMilli(idx),
         beats      |-> tb,
         beatNumber |-> beatNumber,
         beatPhase  |-> Frac(tb),
         barNumber  |-> (beatNumber \div 4) % 4,
         beatInBar  |-> beatNumber % 4]

-----------------------------------------------------------------------------
(* VoiceBank: lines 281-403.  o is the drawn oscillator value, c the clock,*)
(* p the MusicParams, r a drawn Math.random() value.                       *)

\* The samples an oscillator can take: its extremes and its zero.
OscValues == {-Unit, 0, Unit}

\* Values of Math.random(), which lie in [0, 1).
RandomValues == {0, 999}

Kick(o, c, p) ==
    IF c.beatPhase < 150
    THEN Mul(Mul(Mul(o, ExpNeg(c.beatPhase * 30)), 600), p.drumDensity)
    ELSE 0

\* A snare on beats 1 and 3 of the bar.
SnareOnDownbeats(c) == c.beatInBar \in {0, 2} /\ c.beatPhase < 100

\* Line 290: (beatInBar === 1 || beatInBar === 3) && beatPhase < 0.1
SnareActive(c) == c.beatInBar \in {1, 3} /\ c.beatPhase < 100

Snare(o, r, c, p) ==
    IF SnareActive(c)
    THEN LET snareEnv  == ExpNeg(c.beatPhase * 25)
             noise     == Mul(Mul(r * 2 - Unit, snareEnv), 300)
             snareBody == Mul(Mul(o, snareEnv), 200)
         IN  Mul(noise + snareBody, p.drumDensity)
    ELSE 0

HihatPhase(c, p) ==
    Frac(c.beats * (IF p.energyScore > 600 THEN 4 ELSE 2))

HihatActive(c, p) == HihatPhase(c, p) < 50

Hihat(r, c, p) ==
    IF HihatActive(c, p)
    THEN LET hhEnv == ExpNeg(HihatPhase(c, p) * 80)
             hihat == Mul(Mul(r * 2 - Unit, hhEnv), 150)
         IN  Mul(Mul(hihat, p.drumDensity), p.brightness)
    ELSE 0

Bass(o, c, p) ==
    LET bassEnv == IF c.beatPhase < 500 THEN Unit - c.beatPhase \div 2 ELSE 750
        bassSaw == Mul(Mul(o, 300), bassEnv)
        bassSub == Mul(Mul(o, 250), bassEnv)
    IN  Mul(bassSaw + bassSub, 500 + p.intensity \div 2)

Pad(o, c, p) ==
    LET pad          == 15 * Mul(o, 40)
        filterSweep  == 500 + Mul(SlowSin((c.t * 3) \div 10), 300)
        filterAmount == Mul(300 + Mul(p.filterCutoff, 700), filterSweep)
    IN  Mul(Mul(Mul(pad, filterAmount), p.brightness), 800)

Pluck(o, c, p) ==
    LET pluckPhase == Frac(c.beats * 2)
    IN  IF pluckPhase < 300
        THEN LET pluckEnv == ExpNeg(pluckPhase * 12)
                 pluck == Mul(Mul(Mul(o, 500) + Mul(o, 300) + Mul(o, 150),
                                  pluckEnv), 200)
             IN  Mul(pluck, p.brightness)
        ELSE 0

Bell(o, c, p) ==
    LET bellSpeed == IF p.energyScore > 500 THEN 4 ELSE 2
        bellBeat  == Floor(c.beats * bellSpeed)
        bellPhase == Frac(c.beats * bellSpeed)
    IN  IF bellBeat % 3 = 0 /\ bellPhase < 200
        THEN LET bellEnv == ExpNeg(bellPhase * 20)
                 bell == Mul(Mul(o + Mul(o, 500) + Mul(o, 250), bellEnv), 80)
             IN  Mul(Mul(bell, p.brightness), p.brightness)
        ELSE 0

Arpeggio(o, c, p) ==
    LET arpSpeed == IF p.tempo > 120 THEN 4 ELSE 2
        arpPhase == Frac(c.beats * arpSpeed)
        arpEnv   == Mul(ExpNeg(arpPhase * 4), 300 + Mul(p.energyScore, 400))
        arpOsc   == Mul(o, 500 + p.filterCutoff \div 2)
    IN  Mul(Mul(Mul(arpOsc, arpEnv), 120), p.brightness)

\* An accent that also fires at an intensity of exactly 0.5.
AccentFromHalf(o, c, p) ==
    IF c.beatInBar % 2 = 1 /\ c.beatPhase < 150 /\ p.intensity >= 500
    THEN LET acidEnv == ExpNeg(c.beatPhase * 20)
             acidOsc == Mul(o, acidEnv)
         IN  Mul(Mul(acidOsc, 150), p.intensity)
    ELSE 0

Accent(o, c, p) ==
    IF c.beatInBar % 2 = 1 /\ c.beatPhase < 150 /\ p.intensity > 500
    THEN LET acidEnv == ExpNeg(c.beatPhase * 20)
             acidOsc == Mul(o, acidEnv)
         IN  Mul(Mul(acidOsc, 150), p.intensity)
    ELSE 0

VocalChop(o, c, p) ==
    IF c.barNumber = 2 /\ c.beatInBar = 0 /\ c.beatPhase < 400
    THEN LET vowelEnv == ExpNeg(c.beatPhase * 5)
             vowel == Mul(Mul(Mul(o, 500) + Mul(Mul(o, o), 300)
                              + Mul(Mul(o, o), 150), vowelEnv), 150)
         IN  Mul(vowel, p.brightness)
    ELSE 0

\* let sample = 0; sample += ... : the sum of the voices (lines 279-403).
\* rs and rh are the Math.random() values of the snare and of the hi-hat.
VoiceSum(o, rs, rh, c, p) ==
    Kick(o, c, p) + Snare(o, rs, c, p) + Hihat(rh, c, p) + Bass(o, c, p)
    + Pad(o, c, p) + Pluck(o, c, p) + Bell(o, c, p) + Arpeggio(o, c, p)
    + Accent(o, c, p) + VocalChop(o, c, p)

-----------------------------------------------------------------------------
(* Mixer/MasterBus and PCMEncoder: lines 405-419                           *)

\* sample = Math.tanh(sample * 1.5) * 0.8
Master(sample) == Mul(Tanh((sample * 3) \div 2), 800)

\* const stereoPhase = Math.sin(t * 0.5) * 0.1
StereoPhase(c) == Mul(SlowSin(c.t \div 2), 100)

Left(sample, c)  == Mul(sample, Unit + StereoPhase(c))
Right(sample, c) == Mul(sample, Unit - StereoPhase(c))

ToInt16FullScale(x) ==
    LET lo == IF x < Unit THEN x ELSE Unit
        cl == IF lo > -Unit THEN lo ELSE -Unit
    IN  (cl * 65535) \div Unit

\* Math.floor(Math.max(-1, Math.min(1, x)) * 32767)
ToInt16(x) ==
    LET lo == IF x < Unit THEN x ELSE Unit
        cl == IF lo > -Unit THEN lo ELSE -Unit
    IN  (cl * 32767) \div Unit

\* The value buffer.writeInt16LE stores: NaN is stored as 0.
Stored(isNaN, x) == IF isNaN THEN 0 ELSE ToInt16(x)

-----------------------------------------------------------------------------
(* ContainerWriter: createWAVHeader, lines 485-510.                        *)
(* A byte count can exceed 32-bit integer arithmetic, so sizes are held    *)
(* as two 16-bit limbs, [hi, lo] standing for hi * 65536 + lo.             *)

WideOf(n) == [hi |-> n \div 65536, lo |-> n % 65536]

\* w * k and w + k for a small non-negative k.
WideTimes(w, k) ==
    [hi |-> w.hi * k + (w.lo * k) \div 65536, lo |-> (w.lo * k) % 65536]

WidePlus(w, k) ==
    [hi |-> w.hi + (w.lo + k) \div 65536, lo |-> (w.lo + k) % 65536]

\* writeUInt32LE accepts 0 .. 2^32 - 1 and throws a RangeError otherwise.
FitsUInt32(w) == w.hi >= 0 /\ w.hi < 65536

UInt32LE(w) == <<w.lo % 256, w.lo \div 256, w.hi % 256, w.hi \div 256>>

UInt16LE(v) == <<v % 256, v \div 256>>

\* header.write('RIFF', 0) and the like: the ASCII codes of the tag.
Ascii(tag) ==
    CASE tag = "RIFF" -> <<82, 73, 70, 70>>
      [] tag = "WAVE" -> <<87, 65, 86, 69>>
      [] tag = "fmt " -> <<102, 109, 116, 32>>
      [] tag = "data" -> <<100, 97, 116, 97>>

\* A data size that counts one channel only (a variant to compare against).
DataSizeOneChannel(samples, channels, bitsPerSample) ==
    WideTimes(WideOf(samples), bitsPerSample \div 8)

\* const dataSize = numSamples * channels * (bitsPerSample / 8)
DataSize(samples, channels, bitsPerSample) ==
    WideTimes(WideOf(samples), channels * (bitsPerSample \div 8))

\* createWAVHeader: the 44 bytes, or the RangeError of a writeUInt32LE.
createWAVHeader(samples, rate, channels, bitsPerSample) ==
    LET dataSize == DataSize(samples, channels, bitsPerSample)
        fileSize == WidePlus(dataSize, 36)
        bytesPerFrame == channels * (bitsPerSample \div 8)
    IN  IF ~FitsUInt32(fileSize) \/ ~FitsUInt32(dataSize)
        THEN [threw |-> TRUE, bytes |-> <<>>]
        ELSE [threw |-> FALSE,
              bytes |-> Ascii("RIFF") \o UInt32LE(fileSize) \o Ascii("WAVE")
                        \o Ascii("fmt ") \o UInt32LE(WideOf(16))
                        \o UInt16LE(1) \o UInt16LE(channels)
                        \o UInt32LE(WideOf(rate))
                        \o UInt32LE(WideOf(rate * bytesPerFrame))
                        \o UInt16LE(bytesPerFrame) \o UInt16LE(bitsPerSample)
                        \o Ascii("data") \o UInt32LE(dataSize)]

\* Buffer.alloc(size) throws a RangeError for a negative size.  The largest
\* size it accepts depends on the runtime (2^32 bytes up to Node 20, more
\* from Node 21 on): beyond 2^32 - 1 either outcome is possible.
AllocThrows(size) == size.hi < 0
AllocMayThrow(size) == size.hi >= 65536

-----------------------------------------------------------------------------
(* PeakExtractor: createWaveform and normalizePeak (tools/waveform.ts)     *)
(* A buffer is its length, the bytes of a header (possibly none) and a     *)
(* pattern of bytes that repeats after it.  A peak is a fraction num/den.  *)

numPeaks == 200

\* The byte at offset j of a buffer.
ByteAt(buf, j) ==
    IF j < Len(buf.header) THEN buf.header[j + 1]
    ELSE buf.pattern[((j - Len(buf.header)) % Len(buf.pattern)) + 1]

\* audioBuffer.readInt16LE(j) reads the bytes j and j + 1, two's complement.
readInt16LE(buf, j) ==
    LET v == ByteAt(buf, j) + 256 * ByteAt(buf, j + 1)
    IN  IF v >= 32768 THEN v - 65536 ELSE v

\* readInt16LE throws a RangeError unless 0 <= j and j + 2 <= length.
ReadInRange(buf, j) == j >= 0 /\ j + 2 <= buf.length

normalizePeakUnclamped(value) == [num |-> value, den |-> 32767]

\* normalizePeak(value): Math.max(0, Math.min(1, value / 32767))
normalizePeak(value) ==
    [num |-> IF value > 32767 THEN 32767 ELSE IF value < 0 THEN 0 ELSE value,
     den |-> 32767]

\* A number of samples per peak that is rounded up.
SamplesPerPeakCeiling(buf) ==
    ((buf.length \div 2) + numPeaks - 1) \div numPeaks

\* Lines 19, 22, 23: the samples of a peak and the offsets of peak k.
SamplesPerPeak(buf) == (buf.length \div 2) \div numPeaks

PeakOffsets(buf, k) ==
    LET start == k * SamplesPerPeak(buf) * 2
        stop  == IF start + SamplesPerPeak(buf) * 2 < buf.length
                 THEN start + SamplesPerPeak(buf) * 2 ELSE buf.length
    IN  {j \in start..(stop - 1) : (j - start) % 2 = 0}

SetMax(S) == IF S = {} THEN 0 ELSE CHOOSE m \in S : \A x \in S : x <= m

\* Lines 21-30: let max = 0; max = Math.max(max, Math.abs(readInt16LE(j))).
BufferPeak(buf, k) ==
    normalizePeak(SetMax({0} \cup {Abs(readInt16LE(buf, j)) :
                                      j \in PeakOffsets(buf, k)}))

\* Math.sin(x) for any x in milli-radians.
Sin(x) == IF x < 0 THEN -SlowSin(-x) ELSE SlowSin(x)

\* x % 1 in JavaScript: the sign is that of x.
JsFrac(x) == IF x < 0 THEN -((-x) % Unit) ELSE x % Unit

\* Line 38: t = (k / numPeaks) * duration, in milliseconds.
PeakTime(duration, k) == (k * duration * Unit) \div numPeaks

\* Lines 34, 39: beatPhase = (t * tempoHz) % 1 with tempoHz = tempo / 60.
BeatPhase(p, duration, k) ==
    JsFrac(Mul(PeakTime(duration, k), (p.tempo * Unit) \div 60))

\* Line 42: let amplitude = 0.3 + Math.sin(t * 2) * 0.2
BaseAmplitude(t) == 300 + Mul(Sin(t * 2), 200)

\* A pulse that lowers the amplitude on the beat.
KickPulseInverted(p, beatPhase) ==
    IF beatPhase < 100 THEN -Mul(p.drumDensity, 500) ELSE 0

\* Lines 45-47: if (beatPhase < 0.1) amplitude += drumPattern * 0.5
KickPulse(p, beatPhase) ==
    IF beatPhase < 100 THEN Mul(p.drumDensity, 500) ELSE 0

\* Line 50: Math.sin(t * musicParams.tempo / 10) * 0.1 * brightness
Variation(p, t) == Mul(Mul(Sin((t * p.tempo) \div 10), 100), p.brightness)

\* Lines 37-53: peak k without a buffer.
ApproximatedPeak(p, duration, k) ==
    LET t == PeakTime(duration, k)
        amplitude == BaseAmplitude(t) + KickPulse(p, BeatPhase(p, duration, k))
                     + Variation(p, t)
    IN  [num |-> IF amplitude > Unit THEN Unit
                 ELSE IF amplitude < 0 THEN 0 ELSE amplitude,
         den |-> Unit]

\* createWaveform(audioBuffer, duration, musicParams).  `if (audioBuffer)`
\* holds for every Buffer, an empty one too.
createWaveform(buf, duration, p) ==
    [peaks |-> [k \in 1..numPeaks |->
                   IF buf.present THEN BufferPeak(buf, k - 1)
                   ELSE ApproximatedPeak(p, duration, k - 1)],
     threw |-> buf.present /\ \E k \in 0..(numPeaks - 1) :
                   \E j \in PeakOffsets(buf, k) : ~ReadInRange(buf, j),
     duration |-> duration,
     sampleRate |-> 44100]

-----------------------------------------------------------------------------
(* Inputs                                                                  *)

TableKeys == DOMAIN noteFreqs
UnknownKeys == {"Z", "", "H", "c"}
Keys == TableKeys \cup UnknownKeys \cup {"toString", "constructor"}

\* MusicParams.scale, and a string outside the type.
ScaleTypes == {"major", "minor", "pentatonic", "chromatic", "blues"}

\* trendDirection; "undefined" is the field being absent (MusicParams of
\* packages/shared does not declare it).
TrendDirections == {"rising", "falling", "stable", "undefined"}

\* The scenario of the specification: 128 BPM, C major, rising.
Scenario ==
    [tempo |-> 128, key |-> "C", scale |-> "major", brightness |-> 800,
     drumDensity |-> 700, intensity |-> 750, energyScore |-> 800,
     filterCutoff |-> 600, trendDirection |-> "rising"]

\* Every key, scale and trend, the other fields being those of the scenario.
ScaleInputs ==
    {[Scenario EXCEPT !.key = k, !.scale = s, !.trendDirection = d] :
        k \in Keys, s \in ScaleTypes, d \in TrendDirections}

\* The MusicParams of the renders: the scenario at every tempo and drum
\* density, and its variations in key, scale, trend and energy.
EngineParams ==
    {[Scenario EXCEPT !.tempo = t, !.drumDensity = dd] :
        t \in {0, 60, 128, 180}, dd \in {0, 700, 1000}}
    \cup {[Scenario EXCEPT !.key = k, !.scale = s, !.trendDirection = d] :
        k \in {"C", "toString"}, s \in {"major", "minor"},
        d \in {"rising", "stable"}}
    \cup {[Scenario EXCEPT !.tempo = t, !.energyScore = 400, !.intensity = 400] :
        t \in {60, 128}}

\* The durations of the renders, in seconds: -1 .. MaxDuration.
MaxDuration == 2
EngineDurations == (-1)..MaxDuration

\* The calls of synthesizeAudio: the scenario, and the scenario at tempo 0,
\* for 0 .. MaxCallDuration seconds.
CallParams == {Scenario, [Scenario EXCEPT !.tempo = 0]}
MaxCallDuration == 1
CallDurations == 0..MaxCallDuration

\* The loop of the model visits every Stride-th sample: an iteration reads
\* nothing of the iterations before it.
Stride == 4410

\* The durations of the calls that build a container without tracking its
\* samples; dataSize leaves 32 bits between the last two.
MaxHeaderDuration == 24
HeaderDurations == (0..MaxHeaderDuration) \cup {24347, 24348}

NoBuffer == [header |-> <<>>, dataLength |-> WideOf(0), built |-> FALSE]
Pending == [kind |-> "pending", from |-> "none", error |-> "none"]
NoRemote == [script |-> "none", music |-> "none", save |-> "none"]
NoAudio == [present |-> FALSE, length |-> 0, header |-> <<>>, pattern |-> <<0>>]
NoMarketData ==
    [instrument |-> "", priceChangePercent24h |-> 0, volatility |-> 0,
     volume24h |-> 0]
NoMarket ==
    [instrument |-> "", pc |-> "idle", contacted |-> <<>>, spoonOS |-> "none",
     price |-> "none", history |-> "none", outcome |-> "pending",
     source |-> "none",
     data |-> [priceChangePercent24h |-> 0, volatility |-> 0,
               volume24h |-> 0]]
NoMoment ==
    [pc |-> "idle", instrument |-> "", enabled |-> TRUE, health |-> "none",
     python |-> "none", steps |-> <<>>, outcome |-> "pending",
     source |-> "none"]
NoMix ==
    [osc |-> 0, noise |-> 0, kick |-> 0, snare |-> 0, accent |-> 0,
     vocalChop |-> 0, reads |-> {}]
NoWaveform == [peaks |-> <<>>, threw |-> FALSE, duration |-> 0, sampleRate |-> 0]

-----------------------------------------------------------------------------
(* synthesizeAudio, lines 85-180, and getLLMMusicScript, lines 38-79       *)

\* if (!apiKey) return generateFallbackAudio(musicParams, durationSeconds)
CallWithoutKey ==
    /\ pc = "call" /\ ~apiKey
    /\ pc' = "render"
    /\ localRuns' = localRuns + 1
    /\ UNCHANGED <<waveVars, pipelineVars, serverVars>>
    /\ UNCHANGED <<params, durationSeconds, apiKey, contextSet, llmResult,
                   remote, result, rootFreq, scale, chordProgression,
                   arpPattern, numSamples, i, pcm, replay, stereo, beat, rootsUsed, mix, wavBuffer>>

CallWithKey ==
    /\ pc = "call" /\ apiKey
    /\ pc' = "script"
    /\ UNCHANGED <<waveVars, pipelineVars, serverVars>>
    /\ UNCHANGED <<params, durationSeconds, apiKey, contextSet, llmResult,
                   remote, localRuns, result, rootFreq, scale,
                   chordProgression, arpPattern, numSamples, i, pcm, replay, stereo, beat, rootsUsed, mix,
                   wavBuffer>>

\* getLLMMusicScript without a context: returns null, no request is made.
ScriptSkipped ==
    /\ pc = "script" /\ ~contextSet
    /\ remote' = [remote EXCEPT !.script = "skipped"]
    /\ llmResult' = "null"
    /\ pc' = "music"
    /\ UNCHANGED <<waveVars, pipelineVars, serverVars>>
    /\ UNCHANGED <<params, durationSeconds, apiKey, contextSet, localRuns,
                   result, rootFreq, scale, chordProgression, arpPattern,
                   numSamples, i, pcm, replay, stereo, beat, rootsUsed, mix, wavBuffer>>

\* getLLMMusicScript with a context: the request succeeds, or it fails (a
\* refused connection, a timeout, a malformed answer) and the catch block
\* returns null.  synthesizeAudio goes on in both cases (lines 106-114).
ScriptRequest ==
    /\ pc = "script" /\ contextSet
    /\ \E ok \in BOOLEAN :
        /\ remote' = [remote EXCEPT !.script = IF ok THEN "ok" ELSE "failed"]
        /\ llmResult' = IF ok THEN "script" ELSE "null"
    /\ pc' = "music"
    /\ UNCHANGED <<waveVars, pipelineVars, serverVars>>
    /\ UNCHANGED <<params, durationSeconds, apiKey, contextSet, localRuns,
                   result, rootFreq, scale, chordProgression, arpPattern,
                   numSamples, i, pcm, replay, stereo, beat, rootsUsed, mix, wavBuffer>>

MusicRequestPropagates ==
    /\ pc = "music"
    /\ \E ok \in BOOLEAN :
        /\ remote' = [remote EXCEPT !.music = IF ok THEN "ok" ELSE "failed"]
        /\ pc' = IF ok THEN "saveMp3" ELSE "done"
        /\ result' = IF ok THEN result
                     ELSE [kind |-> "rejected", from |-> "remote",
                           error |-> "request"]
    /\ UNCHANGED <<waveVars, pipelineVars, serverVars>>
    /\ UNCHANGED <<params, durationSeconds, apiKey, contextSet, llmResult,
                   localRuns, rootFreq, scale, chordProgression, arpPattern,
                   numSamples, i, pcm, replay, stereo, beat, rootsUsed, mix, wavBuffer>>

\* axios.post to the music API (lines 128-143): a failure is caught at line
\* 166 and the catch block returns generateFallbackAudio(...).
MusicRequest ==
    /\ pc = "music"
    /\ \E ok \in BOOLEAN :
        /\ remote' = [remote EXCEPT !.music = IF ok THEN "ok" ELSE "failed"]
        /\ pc' = IF ok THEN "saveMp3" ELSE "render"
        /\ localRuns' = IF ok THEN localRuns ELSE localRuns + 1
    /\ UNCHANGED <<waveVars, pipelineVars, serverVars>>
    /\ UNCHANGED <<params, durationSeconds, apiKey, contextSet, llmResult,
                   result, rootFreq, scale, chordProgression, arpPattern,
                   numSamples, i, pcm, replay, stereo, beat, rootsUsed, mix, wavBuffer>>

\* fs.mkdir and fs.writeFile of the MP3 (lines 152-165), inside the same try.
SaveMp3 ==
    /\ pc = "saveMp3"
    /\ \E ok \in BOOLEAN :
        /\ remote' = [remote EXCEPT !.save = IF ok THEN "ok" ELSE "failed"]
        /\ pc' = IF ok THEN "done" ELSE "render"
        /\ localRuns' = IF ok THEN localRuns ELSE localRuns + 1
        /\ result' = IF ok
                     THEN [kind |-> "mp3", from |-> "remote", error |-> "none"]
                     ELSE result
    /\ UNCHANGED <<waveVars, pipelineVars, serverVars>>
    /\ UNCHANGED <<params, durationSeconds, apiKey, contextSet, llmResult,
                   rootFreq, scale, chordProgression, arpPattern, numSamples,
                   i, pcm, replay, stereo, beat, rootsUsed, mix, wavBuffer>>

-----------------------------------------------------------------------------
(* generateFallbackAudio, lines 233-439                                    *)

\* Lines 244-270: the allocation of the sample buffer and the tables.
RenderSetup ==
    /\ pc = "render"
    /\ LET size == WideTimes(WideOf(sampleRate * durationSeconds), 4)
       IN  \E threw \in (IF AllocMayThrow(size) THEN BOOLEAN
                         ELSE {AllocThrows(size)}) :
            /\ pc' = IF threw THEN "done" ELSE "loop"
            /\ result' = IF threw
                         THEN [kind |-> "rejected", from |-> "local",
                               error |-> "RangeError"]
                         ELSE result
    /\ numSamples' = sampleRate * durationSeconds
    /\ i' = 0
    /\ rootFreq' = getFrequencyFromKey(params.key)
    /\ scale' = getScaleFrequencies(getFrequencyFromKey(params.key), params.scale)
    /\ chordProgression' = ChordProgressionFor(params.trendDirection, params.scale)
    /\ arpPattern' = ArpPatternFor(params.trendDirection)
    /\ UNCHANGED <<waveVars, pipelineVars, serverVars>>
    /\ UNCHANGED <<params, durationSeconds, apiKey, contextSet, llmResult,
                   remote, localRuns, pcm, replay, stereo, beat, rootsUsed, mix, wavBuffer>>

\* The two integers one iteration writes, from the drawn oscillator value o
\* and the Math.random() values rs (snare) and rh (hi-hat).  A sample is NaN
\* when a frequency it reads is NaN or undefined.
\* Line 307: const chordRoot = chordProgression[barNumber]
ChordRoot(c) == At(chordProgression, c.barNumber)

\* scale[(chordRoot + note) % 7]: the index of one read of the frequency
\* table; NaN, that reads undefined, when the root or the note is undefined.
ScaleIndexUnwrapped(root, note) ==
    IF root = Undefined \/ note = Undefined THEN Undefined ELSE root + note

ScaleIndex(root, note) ==
    IF root = Undefined \/ note = Undefined THEN Undefined
    ELSE (root + note) % 7

\* Lines 335-339: the pluck reads the table in the first 30% of an eighth.
PluckReads(c) ==
    LET pluckBeat  == Floor(c.beats * 2)
        pluckPhase == Frac(c.beats * 2)
        pluckNote  == At(arpPattern, (pluckBeat + 2) % Len(arpPattern))
    IN  IF pluckPhase < 300 THEN {ScaleIndex(ChordRoot(c), pluckNote)} ELSE {}

\* Lines 351-356: the bell reads the table on every third of its steps.
BellReads(c, p) ==
    LET bellSpeed == IF p.energyScore > 500 THEN 4 ELSE 2
        bellBeat  == Floor(c.beats * bellSpeed)
        bellPhase == Frac(c.beats * bellSpeed)
        bellNote  == At(arpPattern, bellBeat % Len(arpPattern))
    IN  IF bellBeat % 3 = 0 /\ bellPhase < 200
        THEN {ScaleIndex(ChordRoot(c), bellNote)} ELSE {}

\* Lines 368-371: the arpeggio reads the table at every sample.
ArpeggioReads(c, p) ==
    LET arpSpeed == IF p.tempo > 120 THEN 4 ELSE 2
        arpBeat  == Floor(c.beats * arpSpeed)
        arpNote  == At(arpPattern, arpBeat % Len(arpPattern))
    IN  {ScaleIndex(ChordRoot(c), arpNote)}

\* Every index with which one iteration reads scale: scale[chordRoot] of the
\* bass, the accent and the vocal chop (lines 308, 383, 393), the three pad
\* notes (lines 319-321), the pluck, the bell and the arpeggio.
ScaleReads(c, p) ==
    {ChordRoot(c)}
    \cup {ScaleIndex(ChordRoot(c), note) : note \in {0, 2, 4}}
    \cup PluckReads(c) \cup BellReads(c, p) \cup ArpeggioReads(c, p)

SampleIsNaN ==
    \/ rootFreq = NaN
    \/ ChordRoot(Clock(i, params.tempo)) = Undefined

\* Lines 407-412: the left and right channel of one iteration before they
\* are clamped and quantized.
SampleChannels(o, rs, rh) ==
    LET c == Clock(i, params.tempo)
        sample == Master(VoiceSum(o, rs, rh, c, params))
    IN  <<Left(sample, c), Right(sample, c)>>

SampleInts(o, rs, rh) ==
    LET ch == SampleChannels(o, rs, rh)
    IN  <<Stored(SampleIsNaN, ch[1]), Stored(SampleIsNaN, ch[2])>>

\* One iteration of the loop of lines 272-420, and the same iteration of a
\* second render of the same input: the oscillators are functions of t and of
\* the input and have the same value in both, Math.random() is drawn anew.
RenderSample ==
    /\ pc = "loop" /\ i < numSamples
    /\ LET c == Clock(i, params.tempo)
           snareDraws == IF SnareActive(c) THEN RandomValues ELSE {0}
           hihatDraws == IF HihatActive(c, params) THEN RandomValues ELSE {0}
       IN  \E o \in OscValues :
           \E rs \in snareDraws, rh \in hihatDraws :
           \E rs2 \in snareDraws, rh2 \in hihatDraws :
               /\ pcm' = SampleInts(o, rs, rh)
               /\ stereo' = SampleChannels(o, rs, rh)
               /\ replay' = SampleInts(o, rs2, rh2)
               /\ mix' = [osc       |-> o,
                          noise     |-> rs,
                          kick      |-> Kick(o, c, params),
                          snare     |-> Snare(o, rs, c, params),
                          accent    |-> Accent(o, c, params),
                          vocalChop |-> VocalChop(o, c, params),
                          reads     |-> ScaleReads(c, params)]
    /\ beat' = Clock(i, params.tempo)
    /\ rootsUsed' = rootsUsed \cup {<<Clock(i, params.tempo).beatNumber,
                                       ChordRoot(Clock(i, params.tempo))>>}
    /\ i' = i + Stride
    /\ UNCHANGED <<waveVars, pipelineVars, serverVars>>
    /\ UNCHANGED <<params, durationSeconds, apiKey, contextSet, pc, llmResult,
                   remote, localRuns, result, rootFreq, scale,
                   chordProgression, arpPattern, numSamples, wavBuffer>>

\* The loop of a call whose samples the model does not follow.
RenderLoopUntracked ==
    /\ pc = "loop" /\ i < numSamples
    /\ i' = numSamples
    /\ UNCHANGED <<waveVars, pipelineVars, serverVars>>
    /\ UNCHANGED <<params, durationSeconds, apiKey, contextSet, pc, llmResult,
                   remote, localRuns, result, rootFreq, scale,
                   chordProgression, arpPattern, numSamples, pcm, replay, stereo, beat, rootsUsed, mix,
                   wavBuffer>>

\* Lines 422-424: createWAVHeader and Buffer.concat([wavHeader, buffer]).
WrapContainer ==
    /\ pc = "loop" /\ i >= numSamples
    /\ LET h == createWAVHeader(numSamples, sampleRate, 2, 16)
       IN  /\ pc' = IF h.threw THEN "done" ELSE "save"
           /\ result' = IF h.threw
                        THEN [kind |-> "rejected", from |-> "local",
                              error |-> "RangeError"]
                        ELSE result
           /\ wavBuffer' = IF h.threw THEN wavBuffer
                           ELSE [header |-> h.bytes,
                                 dataLength |-> WideTimes(WideOf(numSamples), 4),
                                 built |-> TRUE]
    /\ UNCHANGED <<waveVars, pipelineVars, serverVars>>
    /\ UNCHANGED <<params, durationSeconds, apiKey, contextSet, llmResult,
                   remote, localRuns, rootFreq, scale, chordProgression,
                   arpPattern, numSamples, i, pcm, replay, stereo, beat, rootsUsed, mix>>

\* Lines 426-438: fs.mkdir and fs.writeFile, which can reject, and the return.
SaveWav ==
    /\ pc = "save"
    /\ \E ok \in BOOLEAN :
        result' = IF ok
                  THEN [kind |-> "wav", from |-> "local", error |-> "none"]
                  ELSE [kind |-> "rejected", from |-> "local", error |-> "io"]
    /\ pc' = "done"
    /\ UNCHANGED <<waveVars, pipelineVars, serverVars>>
    /\ UNCHANGED <<params, durationSeconds, apiKey, contextSet, llmResult,
                   remote, localRuns, rootFreq, scale, chordProgression,
                   arpPattern, numSamples, i, pcm, replay, stereo, beat, rootsUsed, mix, wavBuffer>>

-----------------------------------------------------------------------------
(* Specifications                                                          *)

\* The API server has received no request.
NoContext == [instrument |-> "", djPreset |-> "", marketData |-> 0]
NoFile == <<-1, "">>
NoRequest ==
    [pc |-> "new", instrument |-> "", djPreset |-> "", k |-> 0,
     script |-> NoContext, filename |-> NoFile]
NoReply == [kind |-> "none", id |-> 0, body |-> <<>>, of |-> <<>>]
Slots == {1, 2}

ServerIdle ==
    /\ requests = [r \in Slots |-> NoRequest]
    /\ currentContext = NoContext
    /\ now = 0
    /\ files = {}
    /\ moments = <<>>
    /\ completed = <<>>
    /\ health = "none"
    /\ reply = NoReply

EngineIdle ==
    /\ llmResult = "none"
    /\ remote = NoRemote
    /\ result = Pending
    /\ rootFreq = 0
    /\ scale = <<>>
    /\ chordProgression = <<>>
    /\ arpPattern = <<>>
    /\ numSamples = 0
    /\ i = 0
    /\ pcm = <<0, 0>>
    /\ replay = <<0, 0>>
    /\ stereo = <<0, 0>>
    /\ beat = Clock(0, 0)
    /\ rootsUsed = {}
    /\ mix = NoMix
    /\ wavBuffer = NoBuffer
    /\ waveform = NoWaveform
    /\ compared = NoWaveform

InitCommon == EngineIdle /\ ServerIdle

\* No call of deriveMusicParams has been made.
DeriveIdle ==
    /\ marketData = NoMarketData
    /\ djPreset = "neon-house"
    /\ comparedData = NoMarketData
    /\ comparedParams = Scenario

\* No call of getMarketData or generateMoment has been made.
PipelineIdle ==
    /\ market = NoMarket
    /\ moment = NoMoment
    /\ DeriveIdle

\* A call of synthesizeAudio.
Init ==
    /\ params \in CallParams
    /\ durationSeconds \in CallDurations
    /\ apiKey \in BOOLEAN
    /\ contextSet \in BOOLEAN
    /\ pc = "call"
    /\ localRuns = 0
    /\ audioBuffer = NoAudio
    /\ InitCommon
    /\ PipelineIdle

Next ==
    \/ CallWithoutKey
    \/ CallWithKey
    \/ ScriptSkipped
    \/ ScriptRequest
    \/ MusicRequest
    \/ SaveMp3
    \/ RenderSetup
    \/ RenderSample
    \/ WrapContainer
    \/ SaveWav

Spec == Init /\ [][Next]_vars

\* A call of generateFallbackAudio (the key being unset).
InitRender ==
    /\ params \in EngineParams
    /\ durationSeconds \in EngineDurations
    /\ apiKey = FALSE
    /\ contextSet = FALSE
    /\ pc = "render"
    /\ localRuns = 1
    /\ audioBuffer = NoAudio
    /\ InitCommon
    /\ PipelineIdle

NextRender ==
    \/ RenderSetup
    \/ RenderSample
    \/ WrapContainer
    \/ SaveWav

SpecRender == InitRender /\ [][NextRender]_vars

\* The set-up of a render alone, over every key, scale and trend.
InitScale ==
    /\ params \in ScaleInputs
    /\ durationSeconds = 8
    /\ apiKey = FALSE
    /\ contextSet = FALSE
    /\ pc = "render"
    /\ localRuns = 1
    /\ audioBuffer = NoAudio
    /\ InitCommon
    /\ PipelineIdle

NextScale == RenderSetup

SpecScale == InitScale /\ [][NextScale]_vars

\* The container of a render, the samples not being followed.
InitHeader ==
    /\ params = Scenario
    /\ durationSeconds \in HeaderDurations
    /\ apiKey = FALSE
    /\ contextSet = FALSE
    /\ pc = "render"
    /\ localRuns = 1
    /\ audioBuffer = NoAudio
    /\ InitCommon
    /\ PipelineIdle

NextHeader ==
    \/ RenderSetup
    \/ RenderLoopUntracked
    \/ WrapContainer
    \/ SaveWav

SpecHeader == InitHeader /\ [][NextHeader]_vars

-----------------------------------------------------------------------------
(* A call of createWaveform                                                *)

\* Byte patterns: silence, the samples -32768, 32767, -1 and 256, and a
\* pattern of odd length, whose samples straddle its repetitions.
BytePatterns ==
    {<<0>>, <<0, 128>>, <<255, 127>>, <<255>>, <<0, 1>>, <<1, 0, 128>>}

\* The lengths of the buffers: 0 .. MaxSmallLength, and lengths around one,
\* two and three samples per peak.
MaxSmallLength == 3
BufferLengths ==
    (0..MaxSmallLength) \cup {399, 400, 401, 403, 800, 801, 1203, 1244}

\* The header of a container of the engine, for the buffers that start
\* with one.
ContainerHeader(length) ==
    createWAVHeader((length - 44) \div 4, sampleRate, 2, 16).bytes

WaveBuffers ==
    {[present |-> TRUE, length |-> n, header |-> <<>>, pattern |-> b] :
        n \in BufferLengths, b \in BytePatterns}
    \cup {[present |-> TRUE, length |-> n, header |-> ContainerHeader(n),
           pattern |-> b] : n \in {444, 1244}, b \in BytePatterns}

WaveDurations == {0, 1, 8, 30}

WaveParams ==
    {[Scenario EXCEPT !.tempo = t, !.drumDensity = dd, !.brightness = br] :
        t \in {60, 128, 180}, dd \in {0, 1000}, br \in {0, 1000}}

CreateWaveform ==
    /\ pc = "wave"
    /\ waveform' = createWaveform(audioBuffer, durationSeconds, params)
    /\ pc' = "waved"
    /\ UNCHANGED <<params, durationSeconds, audioBuffer, compared>>
    /\ UNCHANGED <<engineVars, pipelineVars, serverVars>>

InitWave ==
    /\ params \in WaveParams
    /\ durationSeconds \in WaveDurations
    /\ apiKey = FALSE
    /\ contextSet = FALSE
    /\ pc = "wave"
    /\ localRuns = 0
    /\ InitCommon
    /\ PipelineIdle
    /\ audioBuffer \in WaveBuffers \cup {NoAudio}

NextWave == CreateWaveform

SpecWave == InitWave /\ [][NextWave]_vars

\* createWaveform without a buffer, called twice with the same tempo,
\* brightness and duration and two drum densities.
DrumDensities == {0, 300, 1000}

PulseParams ==
    {[Scenario EXCEPT !.tempo = t, !.drumDensity = dd, !.brightness = br] :
        t \in {60, 128, 180}, dd \in DrumDensities, br \in {0, 500, 1000}}

CreateWaveformTwice ==
    /\ pc = "wave"
    /\ \E dd \in DrumDensities :
        /\ waveform' = createWaveform(audioBuffer, durationSeconds, params)
        /\ compared' = createWaveform(audioBuffer, durationSeconds,
                                       [params EXCEPT !.drumDensity = dd])
    /\ pc' = "waved"
    /\ UNCHANGED <<params, durationSeconds, audioBuffer>>
    /\ UNCHANGED <<engineVars, pipelineVars, serverVars>>

InitPulse ==
    /\ params \in PulseParams
    /\ durationSeconds \in WaveDurations
    /\ apiKey = FALSE
    /\ contextSet = FALSE
    /\ pc = "wave"
    /\ localRuns = 0
    /\ InitCommon
    /\ PipelineIdle
    /\ audioBuffer = NoAudio

NextPulse == CreateWaveformTwice

SpecPulse == InitPulse /\ [][NextPulse]_vars

-----------------------------------------------------------------------------
(* getMarketData (tools/marketData.ts).  Percentages are in thousandths of *)
(* a percent, volumes in millions of dollars.                              *)

\* INSTRUMENT_TO_COINGECKO, lines 18-24.
INSTRUMENT_TO_COINGECKO ==
    [BTC |-> "bitcoin", ETH |-> "ethereum", SOL |-> "solana",
     AVAX |-> "avalanche-2", MATIC |-> "matic-network"]

Supported == DOMAIN INSTRUMENT_TO_COINGECKO

\* const coinId = INSTRUMENT_TO_COINGECKO[instrument]; if (!coinId) throw.
\* The table is an object literal, so an inherited member is found too.
CoinIdOwn(instrument) == instrument \in Supported
CoinIdTruthy(instrument) ==
    CoinIdOwn(instrument) \/ instrument \in ObjectPrototypeKeys

\* The instruments of the calls: the supported ones and four others.
Instruments == Supported \cup {"DOGE", "btc", "constructor", "toString"}

\* What a request can come to: answered with a readable body, answered with
\* a body the code cannot read (a TypeError), or failed (error, timeout).
RequestOutcomes == {"ok", "unreadable", "failed"}

\* The figures of a SpoonOS answer, of a CoinGecko answer (usd_24h_change,
\* usd_24h_vol), of calculateVolatility and of the Math.random draws of the
\* mock data.
SpoonOSAnswers ==
    {[priceChangePercent24h |-> 2500, volatility |-> 3000, volume24h |-> 2000],
     [priceChangePercent24h |-> -500, volatility |-> 15000, volume24h |-> 12000]}
CoinGeckoChanges == {-5000, 0, 5000}
CoinGeckoVolume == 3000
HistoryVolatilities == {0, 4000}
MockChanges == {-4900, 4900}
MockVolatilities == {2000, 6900}
MockVolume == 1000

\* Lines 163-167: the look-up and the throw for an unsupported instrument.
GetMarketDataCall ==
    /\ market.pc = "call"
    /\ IF CoinIdTruthy(market.instrument)
       THEN market' = [market EXCEPT !.pc = "spoonOS"]
       ELSE market' = [market EXCEPT !.pc = "done", !.outcome = "threw",
                                     !.source = "none"]
    /\ UNCHANGED <<params, durationSeconds, pc, moment, deriveVars>>
    /\ UNCHANGED <<engineVars, waveVars, serverVars>>

\* Lines 170-173 and getSpoonOSMarketData: every failure inside gives null.
SpoonOSRequest ==
    /\ market.pc = "spoonOS"
    /\ \E r \in RequestOutcomes, d \in SpoonOSAnswers :
        IF r = "ok"
        THEN market' = [market EXCEPT !.pc = "done", !.spoonOS = r,
                            !.contacted = Append(@, "SpoonOS"),
                            !.outcome = "data", !.source = "SpoonOS",
                            !.data = d]
        ELSE market' = [market EXCEPT !.pc = "coinGecko", !.spoonOS = r,
                            !.contacted = Append(@, "SpoonOS")]
    /\ UNCHANGED <<params, durationSeconds, pc, moment, deriveVars>>
    /\ UNCHANGED <<engineVars, waveVars, serverVars>>

\* Lines 176-183 and 79-97: the price request of getCoinGeckoMarketData; a
\* failure, or an answer without the coin, leaves by the catch of
\* getMarketData, which returns getMockMarketData(instrument).  An own
\* coinId is needed for the answer to hold the coin.
CoinGeckoPrice ==
    /\ market.pc = "coinGecko"
    /\ \E r \in RequestOutcomes, c \in CoinGeckoChanges,
          mc \in MockChanges, mv \in MockVolatilities :
        /\ r = "ok" => CoinIdOwn(market.instrument)
        /\ IF r = "ok"
           THEN market' = [market EXCEPT !.pc = "history", !.price = r,
                               !.contacted = Append(@, "CoinGecko"),
                               !.data = [priceChangePercent24h |-> c,
                                         volatility |-> Abs(c),
                                         volume24h |-> CoinGeckoVolume]]
           ELSE market' = [market EXCEPT !.pc = "done", !.price = r,
                               !.contacted = Append(@, "CoinGecko"),
                               !.outcome = "data", !.source = "mock",
                               !.data = [priceChangePercent24h |-> mc,
                                         volatility |-> mv,
                                         volume24h |-> MockVolume]]
    /\ UNCHANGED <<params, durationSeconds, pc, moment, deriveVars>>
    /\ UNCHANGED <<engineVars, waveVars, serverVars>>

\* Lines 99-125: the history request; its failure keeps |change| as the
\* volatility, and the data of CoinGecko are returned either way.
CoinGeckoHistory ==
    /\ market.pc = "history"
    /\ \E r \in RequestOutcomes, v \in HistoryVolatilities :
        market' = [market EXCEPT !.pc = "done", !.history = r,
                       !.outcome = "data", !.source = "CoinGecko",
                       !.data.volatility = IF r = "ok" THEN v ELSE @]
    /\ UNCHANGED <<params, durationSeconds, pc, moment, deriveVars>>
    /\ UNCHANGED <<engineVars, waveVars, serverVars>>

InitMarket ==
    /\ params = Scenario
    /\ durationSeconds = 8
    /\ apiKey = FALSE
    /\ contextSet = FALSE
    /\ pc = "idle"
    /\ localRuns = 0
    /\ audioBuffer = NoAudio
    /\ InitCommon
    /\ moment = NoMoment
    /\ DeriveIdle
    /\ \E ins \in Instruments :
        market = [NoMarket EXCEPT !.instrument = ins, !.pc = "call"]

NextMarket ==
    \/ GetMarketDataCall
    \/ SpoonOSRequest
    \/ CoinGeckoPrice
    \/ CoinGeckoHistory

SpecMarket == InitMarket /\ [][NextMarket]_vars

-----------------------------------------------------------------------------
(* deriveMusicParams (tools/musicParams.ts) with normalize and clamp of    *)
(* packages/shared.  volatility and priceChangePercent24h are in           *)
(* thousandths of a percent, volume24h in millions of dollars, the tempo   *)
(* in thousandths of a BPM until it is rounded, the normalized fields in   *)
(* thousandths.  The arithmetic is exact for percentages that are          *)
(* multiples of 0.1 and volumes that are multiples of 100 million.         *)

\* DJ_PRESETS, lines 7-39 (the biases).
DJ_PRESETS ==
    ("neon-house" :> [tempoBias |-> 20, scaleBias |-> "major",
                      drumDensityBias |-> 700, brightnessBias |-> 800])
    @@ ("lo-fi-drift" :> [tempoBias |-> -20, scaleBias |-> "minor",
                          drumDensityBias |-> 300, brightnessBias |-> 400])
    @@ ("industrial-tech" :> [tempoBias |-> 10, scaleBias |-> "minor",
                              drumDensityBias |-> 900, brightnessBias |-> 500])

RECURSIVE GCD(_, _)
GCD(a, b) == IF b = 0 THEN a ELSE GCD(b, a % b)

\* normalize(value, min, max, targetMin, targetMax) of packages/shared: a
\* linear map, not clamped.  The ratio of the two ranges is reduced first.
normalize(value, min, max, targetMin, targetMax) ==
    IF max = min THEN targetMin
    ELSE LET g == GCD(targetMax - targetMin, max - min)
         IN  ((value - min) * ((targetMax - targetMin) \div g))
                 \div ((max - min) \div g) + targetMin

\* clamp(value, min, max): Math.max(min, Math.min(max, value))
clamp(value, min, max) ==
    LET upper == IF value < max THEN value ELSE max
    IN  IF upper > min THEN upper ELSE min

\* A tempo that falls as the volatility rises.
volatilityToTempoFalling(volatility, preset) ==
    clamp(normalize(volatility, 0, 10000, 160000, 90000)
          + DJ_PRESETS[preset].tempoBias * 1000, 60000, 180000)

\* volatilityToTempo, lines 44-48, in thousandths of a BPM.
volatilityToTempo(volatility, preset) ==
    clamp(normalize(volatility, 0, 10000, 90000, 160000)
          + DJ_PRESETS[preset].tempoBias * 1000, 60000, 180000)

\* The sign of the change alone decides the scale.
priceChangeToScaleBySign(change, preset) ==
    IF change > 0 THEN "major"
    ELSE IF change < 0 THEN "minor" ELSE DJ_PRESETS[preset].scaleBias

\* priceChangeToScale, lines 53-60.
priceChangeToScale(change, preset) ==
    IF Abs(change) < 1000 THEN DJ_PRESETS[preset].scaleBias
    ELSE IF change > 0 THEN "major" ELSE "minor"

\* instrumentToKey, lines 65-74: keyMap[instrument] || 'C'.  An inherited
\* member of the object literal is truthy and is returned; "[function]"
\* stands for it.
instrumentToKey(instrument) ==
    CASE instrument = "BTC" -> "C"
      [] instrument = "ETH" -> "Dm"
      [] instrument = "SOL" -> "F"
      [] instrument = "AVAX" -> "Am"
      [] instrument = "MATIC" -> "G"
      [] instrument \in ObjectPrototypeKeys -> "[function]"
      [] OTHER -> "C"

\* volumeToDrumDensity, lines 79-85.
volumeToDrumDensity(volume, preset) ==
    LET normalizedVolume == normalize(volume, 0, 10000, 0, Unit)
        baseDensity == clamp(normalizedVolume, 200, 900)
    IN  clamp(baseDensity
              + ((DJ_PRESETS[preset].drumDensityBias - 500) * 3) \div 10,
              0, Unit)

\* The brightness without its clamp.
priceChangeToBrightnessUnclamped(change, preset) ==
    normalize(change, -10000, 10000, 300, 900)
    + ((DJ_PRESETS[preset].brightnessBias - 500) * 2) \div 10

\* priceChangeToBrightness, lines 90-95.
priceChangeToBrightness(change, preset) ==
    clamp(normalize(change, -10000, 10000, 300, 900)
          + ((DJ_PRESETS[preset].brightnessBias - 500) * 2) \div 10, 0, Unit)

\* volatilityToFilterCutoff, lines 100-103: no clamp.
volatilityToFilterCutoff(volatility) ==
    normalize(volatility, 0, 10000, 300, 800)

\* calculateEnergyScore, lines 108-117.
calculateEnergyScore(volatility, volume, change) ==
    clamp(normalize(volatility, 0, 10000, 0, 400)
          + normalize(volume, 0, 10000, 0, 300)
          + normalize(Abs(change), 0, 10000, 0, 300), 0, Unit)

\* A trend that is rising with any gain.
determineTrendDirectionAnyGain(change) ==
    IF change > 0 THEN "rising"
    ELSE IF change < -1000 THEN "falling" ELSE "stable"

\* determineTrendDirection, lines 122-126.
determineTrendDirection(change) ==
    IF change > 1000 THEN "rising"
    ELSE IF change < -1000 THEN "falling" ELSE "stable"

\* calculateTrendStrength, lines 131-134.
calculateTrendStrength(change) ==
    IF Abs(change) \div 10 < Unit THEN Abs(change) \div 10 ELSE Unit

\* Math.round(x) of thousandths, and Math.round(x * 100) / 100.
RoundToUnits(x) == (x + 500) \div 1000
RoundToHundredths(x) == ((x + 5) \div 10) * 10

\* deriveMusicParams, lines 139-172.
deriveMusicParams(data, preset) ==
    LET energyScore == calculateEnergyScore(data.volatility, data.volume24h,
                                            data.priceChangePercent24h)
    IN  [tempo |-> RoundToUnits(volatilityToTempo(data.volatility, preset)),
         scale |-> priceChangeToScale(data.priceChangePercent24h, preset),
         key |-> instrumentToKey(data.instrument),
         filterCutoff |->
             RoundToHundredths(volatilityToFilterCutoff(data.volatility)),
         brightness |->
             RoundToHundredths(priceChangeToBrightness(
                                   data.priceChangePercent24h, preset)),
         drumDensity |->
             RoundToHundredths(volumeToDrumDensity(data.volume24h, preset)),
         intensity |-> RoundToHundredths(energyScore),
         energyScore |-> RoundToHundredths(energyScore),
         trendDirection |->
             determineTrendDirection(data.priceChangePercent24h),
         trendStrength |->
             RoundToHundredths(calculateTrendStrength(
                                   data.priceChangePercent24h))]

\* The inputs of the calls: three presets and market data whose figures lie
\* inside and outside the ranges the mapping assumes.
Presets == DOMAIN DJ_PRESETS
Volatilities == {-5000, 0, 3500, 10000, 15000, 30000}
Volumes == {-1000, 0, 1000, 5000, 10000, 12000}
Changes == {-30000, -10000, -5000, -1000, -500, 0, 500, 1000, 1100, 2500,
            10000, 30000}

MarketRecords ==
    {[instrument |-> "BTC", priceChangePercent24h |-> c, volatility |-> v,
      volume24h |-> w] : c \in Changes, v \in Volatilities, w \in Volumes}

\* Two calls of deriveMusicParams with the same preset, the second with
\* market data that differ from the first in the volatility or in the
\* volume only.
DeriveMusicParamsTwice ==
    /\ pc = "derive"
    /\ params' = deriveMusicParams(marketData, djPreset)
    /\ \E other \in {[marketData EXCEPT !.volatility = v] : v \in Volatilities}
                  \cup {[marketData EXCEPT !.volume24h = w] : w \in Volumes} :
        /\ comparedData' = other
        /\ comparedParams' = deriveMusicParams(other, djPreset)
    /\ pc' = "derived"
    /\ UNCHANGED <<durationSeconds, marketData, djPreset, market, moment>>
    /\ UNCHANGED <<engineVars, waveVars, serverVars>>

InitDerive ==
    /\ params = Scenario
    /\ durationSeconds = 8
    /\ apiKey = FALSE
    /\ contextSet = FALSE
    /\ pc = "derive"
    /\ localRuns = 0
    /\ audioBuffer = NoAudio
    /\ InitCommon
    /\ market = NoMarket
    /\ moment = NoMoment
    /\ marketData \in MarketRecords
    /\ djPreset \in Presets
    /\ comparedData = NoMarketData
    /\ comparedParams = Scenario

NextDerive == DeriveMusicParamsTwice

SpecDerive == InitDerive /\ [][NextDerive]_vars

-----------------------------------------------------------------------------
(* ToolCallAgent.generateMoment (agent.ts, lines 105-161) with             *)
(* isPythonAgentAvailable and generateMomentWithPythonAgent.  moment.steps *)
(* lists the requests and tool calls in the order they are made.           *)

\* The waveform of a call whose peaks the model does not follow.
UntrackedWaveform ==
    [peaks |-> <<>>, threw |-> FALSE, duration |-> 8, sampleRate |-> sampleRate]

\* Line 121: getMarketData(instrument) is called.
StartNodePipeline(m) ==
    [m EXCEPT !.pc = "marketData", !.steps = Append(@, "getMarketData")]

\* The probe answers 200, answers another 2xx status, or fails (an error, a
\* timeout, a status outside 2xx).
HealthOutcomes == {"200", "204", "failed"}

\* A probe that takes every answered status for an available agent.
HealthProbeAnyAnswer ==
    /\ moment.pc = "call"
    /\ IF ~moment.enabled
       THEN /\ moment' = StartNodePipeline(moment)
            /\ market' = [NoMarket EXCEPT !.instrument = moment.instrument,
                                          !.pc = "call"]
       ELSE \E r \in HealthOutcomes :
            LET probed == [moment EXCEPT !.health = r,
                                         !.steps = Append(@, "health")]
            IN  IF r # "failed"
                THEN /\ moment' = [probed EXCEPT !.pc = "python"]
                     /\ market' = market
                ELSE /\ moment' = StartNodePipeline(probed)
                     /\ market' = [NoMarket EXCEPT
                                       !.instrument = moment.instrument,
                                       !.pc = "call"]
    /\ UNCHANGED <<params, durationSeconds, pc, deriveVars>>
    /\ UNCHANGED <<engineVars, waveVars, serverVars>>

\* Lines 109 and 25-36: no request when SPOONOS_AGENT_ENABLED is false;
\* otherwise GET /health, and the agent is available on a status of 200
\* only.  When it is not, the pipeline of Node.js starts (line 121).
HealthProbe ==
    /\ moment.pc = "call"
    /\ IF ~moment.enabled
       THEN /\ moment' = StartNodePipeline(moment)
            /\ market' = [NoMarket EXCEPT !.instrument = moment.instrument,
                                          !.pc = "call"]
       ELSE \E r \in HealthOutcomes :
            LET probed == [moment EXCEPT !.health = r,
                                         !.steps = Append(@, "health")]
            IN  IF r = "200"
                THEN /\ moment' = [probed EXCEPT !.pc = "python"]
                     /\ market' = market
                ELSE /\ moment' = StartNodePipeline(probed)
                     /\ market' = [NoMarket EXCEPT
                                       !.instrument = moment.instrument,
                                       !.pc = "call"]
    /\ UNCHANGED <<params, durationSeconds, pc, deriveVars>>
    /\ UNCHANGED <<engineVars, waveVars, serverVars>>

\* Lines 110-115 and 41-94: POST /generate-moment.  A readable answer gives
\* the moment of Python (with a waveform made by createWaveform from the
\* audio file, or without a buffer); a failure or an unreadable answer is
\* caught, null is returned and the pipeline of Node.js starts.
PythonGenerate ==
    /\ moment.pc = "python"
    /\ \E r \in RequestOutcomes :
        LET asked == [moment EXCEPT !.python = r,
                                    !.steps = Append(@, "generate-moment")]
        IN  IF r = "ok"
            THEN /\ moment' = [asked EXCEPT !.pc = "done",
                                   !.outcome = "moment", !.source = "python"]
                 /\ waveform' = UntrackedWaveform
                 /\ market' = market
            ELSE /\ moment' = StartNodePipeline(asked)
                 /\ waveform' = waveform
                 /\ market' = [NoMarket EXCEPT
                                   !.instrument = moment.instrument,
                                   !.pc = "call"]
    /\ UNCHANGED <<params, durationSeconds, pc, deriveVars, audioBuffer,
                   compared>>
    /\ UNCHANGED <<engineVars, serverVars>>

\* Lines 121-137: getMarketData has settled.  A throw rejects the call;
\* otherwise deriveMusicParams, setMusicContext and the call of
\* synthesizeAudio(musicParams, 8) follow without a suspension.
MarketDataReturned ==
    /\ moment.pc = "marketData" /\ market.pc = "done"
    /\ IF market.outcome = "threw"
       THEN /\ moment' = [moment EXCEPT !.pc = "done", !.outcome = "rejected"]
            /\ UNCHANGED <<params, durationSeconds, pc, marketData,
                           contextSet>>
       ELSE LET data == [instrument |-> market.instrument,
                         priceChangePercent24h |->
                             market.data.priceChangePercent24h,
                         volatility |-> market.data.volatility,
                         volume24h |-> market.data.volume24h]
            IN  /\ marketData' = data
                /\ params' = deriveMusicParams(data, djPreset)
                /\ contextSet' = TRUE
                /\ durationSeconds' = 8
                /\ pc' = "call"
                /\ moment' = [moment EXCEPT !.pc = "audio",
                                  !.steps = @ \o <<"deriveMusicParams",
                                                   "setMusicContext",
                                                   "synthesizeAudio">>]
    /\ UNCHANGED <<market, djPreset, comparedData, comparedParams>>
    /\ UNCHANGED <<apiKey, llmResult, remote, localRuns, result, rootFreq,
                   scale, chordProgression, arpPattern, numSamples, i, pcm,
                   replay, stereo, beat, rootsUsed, mix, wavBuffer>>
    /\ UNCHANGED <<waveVars, serverVars>>

\* Lines 137-160: synthesizeAudio has settled.  A rejection rejects the call;
\* otherwise createWaveform(audioResult.audioBuffer, 8, musicParams) is
\* called and the moment is returned.
AudioReturned ==
    /\ moment.pc = "audio" /\ pc = "done"
    /\ IF result.kind = "rejected"
       THEN /\ moment' = [moment EXCEPT !.pc = "done", !.outcome = "rejected"]
            /\ waveform' = waveform
       ELSE /\ moment' = [moment EXCEPT !.pc = "done", !.outcome = "moment",
                              !.source = "node",
                              !.steps = Append(@, "createWaveform")]
            /\ waveform' = UntrackedWaveform
    /\ UNCHANGED <<params, durationSeconds, pc, market, deriveVars,
                   audioBuffer, compared>>
    /\ UNCHANGED <<engineVars, serverVars>>

\* The requests: three instruments (one supported, two not), the agent
\* enabled or not, the key set or not.
MomentInstruments == {"BTC", "DOGE", "toString"}

InitMoment ==
    /\ params = Scenario
    /\ durationSeconds = 8
    /\ apiKey \in BOOLEAN
    /\ contextSet = FALSE
    /\ pc = "idle"
    /\ localRuns = 0
    /\ audioBuffer = NoAudio
    /\ InitCommon
    /\ market = NoMarket
    /\ marketData = NoMarketData
    /\ djPreset \in {"neon-house", "lo-fi-drift"}
    /\ comparedData = NoMarketData
    /\ comparedParams = Scenario
    /\ \E ins \in MomentInstruments, en \in BOOLEAN :
        moment = [NoMoment EXCEPT !.pc = "call", !.instrument = ins,
                                  !.enabled = en]

NextMoment ==
    \/ HealthProbe
    \/ PythonGenerate
    \/ GetMarketDataCall
    \/ SpoonOSRequest
    \/ CoinGeckoPrice
    \/ CoinGeckoHistory
    \/ MarketDataReturned
    \/ CallWithoutKey
    \/ CallWithKey
    \/ ScriptRequest
    \/ MusicRequest
    \/ SaveMp3
    \/ RenderSetup
    \/ RenderLoopUntracked
    \/ WrapContainer
    \/ SaveWav
    \/ AudioReturned

SpecMoment == InitMoment /\ [][NextMoment]_vars

\* The pipeline of Node.js from the answer of getMarketData on, without a
\* key, every sample of the render being followed.
PipelineAnswers ==
    {[priceChangePercent24h |-> c, volatility |-> v, volume24h |-> 5000] :
        c \in {-5000, 500}, v \in {3500, 15000}}

InitPipeline ==
    /\ params = Scenario
    /\ durationSeconds = 8
    /\ apiKey = FALSE
    /\ contextSet = FALSE
    /\ pc = "idle"
    /\ localRuns = 0
    /\ audioBuffer = NoAudio
    /\ InitCommon
    /\ \E d \in PipelineAnswers :
        market = [NoMarket EXCEPT !.instrument = "BTC", !.pc = "done",
                                  !.contacted = <<"SpoonOS">>,
                                  !.spoonOS = "ok", !.outcome = "data",
                                  !.source = "SpoonOS", !.data = d]
    /\ marketData = NoMarketData
    /\ djPreset \in Presets
    /\ comparedData = NoMarketData
    /\ comparedParams = Scenario
    /\ moment = [NoMoment EXCEPT !.pc = "marketData", !.instrument = "BTC",
                                 !.enabled = FALSE,
                                 !.steps = <<"getMarketData">>]

NextPipeline ==
    \/ MarketDataReturned
    \/ CallWithoutKey
    \/ RenderSetup
    \/ RenderSample
    \/ WrapContainer
    \/ SaveWav
    \/ AudioReturned

SpecPipeline == InitPipeline /\ [][NextPipeline]_vars

-----------------------------------------------------------------------------
(* Claims about the set-up (checked under SpecScale)                       *)

Reverse(a) == [k \in 1..Len(a) |-> a[Len(a) + 1 - k]]

\* C5: for every key that is not an entry of the name-to-Hz table the root
\* is the default 130.81 Hz and the frequency table is the one of key "C"
\* with the same scale.
C5_UnknownKeyIsDefault ==
    (pc = "loop" /\ params.key \notin TableKeys) =>
        /\ rootFreq = DefaultRoot
        /\ scale = getScaleFrequencies(noteFreqs["C"], params.scale)

\* C6: getScaleFrequencies returns 7 frequencies, built from {0,2,3,5,7,8,10}
\* for minor and from {0,2,4,5,7,9,11} for every other type, entry k being
\* root * 2^(semitone_k / 12).
C6_SevenDegrees ==
    pc = "loop" =>
        LET semis == IF params.scale = "minor"
                     THEN <<0, 2, 3, 5, 7, 8, 10>>
                     ELSE <<0, 2, 4, 5, 7, 9, 11>>
        IN  /\ Len(scale) = 7
            /\ \A k \in 1..7 : scale[k] = DegreeFrequency(rootFreq, semis[k])
            /\ (params.key = "C" /\ params.scale = "major") =>
                   scale = <<130810, 146834, 164807, 174605, 195992,
                             219996, 246930>>

C6_Witness ==
    /\ pc = "loop"
    /\ params.scale = "pentatonic"
    /\ params.key = "A"
    /\ scale[1] = 220000
    /\ scale[3] = DegreeFrequency(22000, 4)

\* C7: for a scale other than major and minor, both the frequency table and
\* the chord progression are the ones selected for scale = major.
C7_OtherScalesAreMajor ==
    (pc = "loop" /\ params.scale \notin {"major", "minor"}) =>
        /\ scale = getScaleFrequencies(rootFreq, "major")
        /\ chordProgression = ChordProgressionFor(params.trendDirection, "major")

\* C10: for major and for minor, rising and falling select different
\* progressions and different arpeggio patterns; the falling progression is
\* the reverse of the rising one and the chord roots differ in every bar.
C10_RisingFallingDiffer ==
    (pc = "loop" /\ params.scale \in {"major", "minor"}
                 /\ params.trendDirection = "rising") =>
        LET falling == ChordProgressionFor("falling", params.scale)
        IN  /\ chordProgression # falling
            /\ arpPattern # ArpPatternFor("falling")
            /\ falling = Reverse(chordProgression)
            /\ \A bar \in 0..3 : At(chordProgression, bar) # At(falling, bar)

C10_Witness ==
    /\ pc = "loop"
    /\ params.scale = "minor"
    /\ params.trendDirection = "rising"
    /\ chordProgression = <<0, 2, 4, 5>>
    /\ ChordProgressionFor("falling", "minor") = <<5, 4, 2, 0>>

-----------------------------------------------------------------------------
(* Claims about the container (checked under SpecHeader)                   *)

\* The little-endian fields of a header, read back as limbs and integers.
ReadUInt32LE(h, off) ==
    [hi |-> h[off + 3] + 256 * h[off + 4], lo |-> h[off + 1] + 256 * h[off + 2]]

ReadUInt16LE(h, off) == h[off + 1] + 256 * h[off + 2]

HeaderLayout(h, frames) ==
    LET chunk == ReadUInt32LE(h, 4)
        data  == ReadUInt32LE(h, 40)
    IN  /\ Len(h) = 44
        /\ \A k \in 1..44 : h[k] \in 0..255
        /\ SubSeq(h, 1, 4) = <<82, 73, 70, 70>>
        /\ SubSeq(h, 9, 12) = <<87, 65, 86, 69>>
        /\ SubSeq(h, 13, 16) = <<102, 109, 116, 32>>
        /\ SubSeq(h, 37, 40) = <<100, 97, 116, 97>>
        /\ ReadUInt32LE(h, 16) = [hi |-> 0, lo |-> 16]
        /\ ReadUInt16LE(h, 20) = 1
        /\ ReadUInt16LE(h, 22) = 2
        /\ ReadUInt32LE(h, 24) = [hi |-> 0, lo |-> 44100]
        /\ ReadUInt32LE(h, 28) = [hi |-> 2, lo |-> 176400 - 2 * 65536]
        /\ ReadUInt16LE(h, 32) = 4
        /\ ReadUInt16LE(h, 34) = 16
        \* Subchunk2Size = frames * 4
        /\ data.lo % 4 = 0
        /\ data.hi * 16384 + data.lo \div 4 = frames
        \* ChunkSize = 36 + Subchunk2Size
        /\ (chunk.hi - data.hi) * 65536 + (chunk.lo - data.lo) = 36

\* C1 (original): for every positive integer duration d the render returns
\* a 44-byte header followed by d*44100*2*2 bytes of PCM data.
C1_EveryDuration ==
    (durationSeconds >= 1 /\ pc = "done" /\ result.error # "io") =>
        /\ wavBuffer.built
        /\ HeaderLayout(wavBuffer.header, durationSeconds * 44100)

\* C1 (amended): for every positive integer duration d <= 24347 the buffer
\* is a 44-byte header with the stated fields followed by exactly
\* d*44100*2*2 bytes of PCM data (d = 8: 352800 frames, 1411200 data bytes,
\* 1411244 bytes in all); for d >= 24348, where 36 + dataSize exceeds
\* 2^32 - 1, the call throws a RangeError and returns no buffer.
C1_Container ==
    /\ wavBuffer.built =>
        /\ HeaderLayout(wavBuffer.header, durationSeconds * 44100)
        /\ wavBuffer.dataLength = ReadUInt32LE(wavBuffer.header, 40)
        /\ durationSeconds = 8 =>
            /\ wavBuffer.dataLength.hi * 65536 + wavBuffer.dataLength.lo
                   = 1411200
            /\ Len(wavBuffer.header) + 1411200 = 1411244
            /\ numSamples = 352800
    /\ (durationSeconds \in 1..24347 /\ pc \in {"save", "done"}) =>
           wavBuffer.built
    /\ (durationSeconds >= 24348 /\ pc = "done") =>
           (~wavBuffer.built /\ result.kind = "rejected"
                             /\ result.error = "RangeError")

C1_Witness ==
    /\ pc = "done"
    /\ result.kind = "wav"
    /\ durationSeconds = 8
    /\ wavBuffer.built
    /\ SubSeq(wavBuffer.header, 41, 44) = <<128, 136, 21, 0>>

-----------------------------------------------------------------------------
(* Claims about the render (checked under SpecRender)                      *)

Normalized(p) ==
    /\ p.brightness \in 0..Unit
    /\ p.drumDensity \in 0..Unit
    /\ p.intensity \in 0..Unit
    /\ p.energyScore \in 0..Unit
    /\ p.filterCutoff \in 0..Unit

\* C2: for normalized fields and a tempo in 60..180, every 16-bit integer
\* the loop writes (left and right channel) lies in [-32768, 32767].
C2_Int16Range ==
    (params.tempo \in 60..180 /\ Normalized(params)) =>
        /\ pcm[1] \in -32768..32767
        /\ pcm[2] \in -32768..32767
        /\ replay[1] \in -32768..32767
        /\ replay[2] \in -32768..32767

C2_Witness ==
    /\ pc = "loop"
    /\ i > 0
    /\ params.tempo \in 60..180
    /\ Normalized(params)
    /\ pcm[1] > 16384
    /\ pcm[2] > 16384

\* C3: two renders of the same MusicParams and duration write the same
\* integers at every sample index.
C3_Deterministic == pcm = replay

\* C8: the engine called with tempo <= 0 or duration <= 0 builds no container
\* and returns none.
C8_FailsFast ==
    (params.tempo <= 0 \/ durationSeconds <= 0) =>
        (~wavBuffer.built /\ result.kind # "wav")

-----------------------------------------------------------------------------
(* Claims about synthesizeAudio (checked under Spec)                       *)

\* C9 (original): without a key no remote call is made and the local result
\* is returned; with a key, the failure of any step of the remote path
\* (script request, music request, saving the file) makes the call return
\* the local engine's result; the local engine runs at most once.
C9_AnyRemoteFailureFallsBack ==
    /\ localRuns <= 1
    /\ ~apiKey => remote = NoRemote
    /\ (pc = "done" /\ ~apiKey) => (localRuns = 1 /\ result.from = "local")
    /\ (pc = "done" /\ apiKey /\ (remote.script = "failed"
                                  \/ remote.music = "failed"
                                  \/ remote.save = "failed")) =>
           (localRuns = 1 /\ result.from = "local")

\* C9 (amended): no failure of the remote path is propagated.  Without a key
\* no remote call is made and the local engine's result is returned; with a
\* key, a failure of the music request or of saving the returned file makes
\* the call return the local engine's result; a failed script request is
\* masked inside getLLMMusicScript and the music request is still made, so
\* the remote MP3 is returned when that request and the save succeed.  The
\* local engine runs at most once, and only without a key or after one of
\* those two failures.
C9_RemoteFailureMasked ==
    /\ localRuns <= 1
    /\ ~apiKey => remote = NoRemote
    /\ localRuns = 1 =>
           (~apiKey \/ remote.music = "failed" \/ remote.save = "failed")
    /\ pc = "done" =>
        /\ ~apiKey => (localRuns = 1 /\ result.from = "local")
        /\ (remote.music = "failed" \/ remote.save = "failed") =>
               (localRuns = 1 /\ result.from = "local")
        /\ result.kind = "rejected" => result.from = "local"
        /\ (result.from = "local" /\ result.kind # "rejected") =>
               (result.kind = "wav" /\ wavBuffer.built)
        /\ (remote.music = "ok" /\ remote.save = "ok") =>
               (result.kind = "mp3" /\ localRuns = 0)
        /\ remote.script = "failed" => remote.music # "none"

C9_Witness ==
    /\ pc = "done"
    /\ apiKey
    /\ remote.script = "ok"
    /\ remote.music = "ok"
    /\ remote.save = "failed"
    /\ localRuns = 1
    /\ result.kind = "wav"

-----------------------------------------------------------------------------
(* Claims about createWaveform (checked under SpecWave)                    *)

\* C4: createWaveform returns exactly 200 peaks, each in [0, 1], for every
\* duration and input (no buffer, an empty buffer, one shorter than 400
\* bytes, one of odd length, a container), and a sample of -32768 gives the
\* peak 1.
C4_PeaksInUnitRange ==
    pc = "waved" =>
        /\ ~waveform.threw
        /\ Len(waveform.peaks) = 200
        /\ \A k \in 1..200 :
            /\ waveform.peaks[k].den > 0
            /\ waveform.peaks[k].num >= 0
            /\ waveform.peaks[k].num <= waveform.peaks[k].den
        /\ (audioBuffer.present /\ audioBuffer.pattern = <<0, 128>>
            /\ audioBuffer.header = <<>> /\ audioBuffer.length >= 400) =>
               \A k \in 1..200 :
                   waveform.peaks[k].num = waveform.peaks[k].den

C4_Witness ==
    /\ pc = "waved"
    /\ audioBuffer.present
    /\ audioBuffer.length = 401
    /\ audioBuffer.pattern = <<0, 128>>
    /\ Len(waveform.peaks) = 200
    /\ waveform.peaks[200] = [num |-> 32767, den |-> 32767]


\* The i-th of 200 equal consecutive buckets of the PCM sample data of a
\* container (the bytes after its 44-byte header), and the largest absolute
\* sample in it.
PcmBucketMax(buf, k) ==
    LET size == ((buf.length - 44) \div 2) \div 200
    IN  SetMax({0} \cup {Abs(readInt16LE(buf, 44 + 2 * s)) :
                            s \in (k * size)..((k + 1) * size - 1)})

\* C11: for a container of the local engine, peak i equals min(1, M_i / 32767)
\* with M_i the largest absolute decoded sample of the i-th of 200 equal
\* buckets of the PCM sample data; all-zero PCM data gives 200 peaks of 0.
C11_PeaksOfPcmData ==
    (pc = "waved" /\ audioBuffer.present /\ audioBuffer.header # <<>>) =>
        \A k \in 1..200 :
            waveform.peaks[k] =
                [num |-> IF PcmBucketMax(audioBuffer, k - 1) > 32767
                         THEN 32767 ELSE PcmBucketMax(audioBuffer, k - 1),
                 den |-> 32767]


-----------------------------------------------------------------------------
(* Claims about the approximated mode (checked under SpecPulse)            *)

\* A fraction num/den of thousandths clamped to [0, 1].
Clamp01(x) == IF x > Unit THEN Unit ELSE IF x < 0 THEN 0 ELSE x

\* Every peak of a is >= the peak of b at the same index.
Denser(a, b) == \A k \in 1..200 : a[k].num >= b[k].num

\* C12: without a buffer, for fixed tempo, brightness and duration, the
\* peaks of a larger drumDensity are >= those of a smaller one at every
\* index, the two differ only at indices whose beat phase is < 0.1, and with
\* drumDensity = 0 every peak is the clamped sum of the base and variation
\* terms, which do not read the beat phase.
C12_PulseMonotone ==
    (pc = "waved" /\ ~audioBuffer.present) =>
        /\ Len(waveform.peaks) = 200 /\ Len(compared.peaks) = 200
        \* dd: a drum density that gives the peaks of the second call
        /\ \A dd \in DrumDensities :
            compared.peaks =
                createWaveform(audioBuffer, durationSeconds,
                               [params EXCEPT !.drumDensity = dd]).peaks =>
            /\ dd >= params.drumDensity =>
                   Denser(compared.peaks, waveform.peaks)
            /\ dd <= params.drumDensity =>
                   Denser(waveform.peaks, compared.peaks)
        /\ \A k \in 1..200 :
            compared.peaks[k] # waveform.peaks[k] =>
                BeatPhase(params, durationSeconds, k - 1) < 100
        /\ params.drumDensity = 0 =>
            \A k \in 1..200 :
                waveform.peaks[k].num =
                    Clamp01(BaseAmplitude(PeakTime(durationSeconds, k - 1))
                            + Variation(params,
                                        PeakTime(durationSeconds, k - 1)))

\* Two densities whose peaks differ on the beat and agree off the beat.
C12_Witness ==
    /\ pc = "waved"
    /\ ~audioBuffer.present
    /\ params.drumDensity = 0
    /\ durationSeconds = 8
    /\ \E k \in 1..200 : compared.peaks[k].num > waveform.peaks[k].num
    /\ \E k \in 1..200 :
        /\ BeatPhase(params, durationSeconds, k - 1) >= 100
        /\ compared.peaks[k] = waveform.peaks[k]


-----------------------------------------------------------------------------
(* Claims about getMarketData (checked under SpecMarket)                   *)

\* C13: the sources are tried in the order SpoonOS, CoinGecko, mock:
\* CoinGecko is contacted only after SpoonOS gave no data, mock data are
\* produced only after the CoinGecko price request gave none either, the
\* first source that gives data supplies the result, a call for a supported
\* instrument never throws, and a call for an unsupported instrument throws
\* before any source is contacted.
C13_SourceOrder ==
    /\ market.contacted \in {<<>>, <<"SpoonOS">>, <<"SpoonOS", "CoinGecko">>}
    /\ Len(market.contacted) = 2 => market.spoonOS \in {"failed", "unreadable"}
    /\ market.source = "mock" =>
        /\ market.contacted = <<"SpoonOS", "CoinGecko">>
        /\ market.price \in {"failed", "unreadable"}
    /\ market.source = "SpoonOS" => market.spoonOS = "ok"
    /\ market.source = "CoinGecko" =>
        market.spoonOS # "ok" /\ market.price = "ok"
    /\ market.spoonOS = "ok" => market.source = "SpoonOS"
    /\ market.instrument \in Supported => market.outcome # "threw"
    /\ (market.instrument \notin Supported /\ market.pc # "call") =>
        /\ market.outcome = "threw"
        /\ market.contacted = <<>>


-----------------------------------------------------------------------------
(* Claims about deriveMusicParams (checked under SpecDerive)               *)

\* C15: for every DJ preset and every market data record with finite
\* figures, deriveMusicParams returns an integer tempo in [60, 180], a scale
\* among major, minor, pentatonic and chromatic, and a brightness and a
\* drumDensity in [0, 1].
C15_DerivedRanges ==
    pc = "derived" =>
        /\ params.tempo \in 60..180
        /\ params.scale \in {"major", "minor", "pentatonic", "chromatic"}
        /\ params.brightness \in 0..Unit
        /\ params.drumDensity \in 0..Unit

C15_Witness ==
    /\ pc = "derived"
    /\ marketData.volatility = 30000
    /\ marketData.priceChangePercent24h = 30000
    /\ marketData.volume24h = 12000
    /\ djPreset = "neon-house"
    /\ params.tempo = 180
    /\ params.brightness = Unit
    /\ params.drumDensity = 960

C18_Monotone ==
    pc = "derived" =>
        /\ (comparedData.volatility = marketData.volatility
            /\ marketData.volume24h <= comparedData.volume24h) =>
               params.drumDensity <= comparedParams.drumDensity
        /\ (comparedData.volatility = marketData.volatility
            /\ marketData.volume24h >= comparedData.volume24h) =>
               params.drumDensity >= comparedParams.drumDensity
        /\ (comparedData.volume24h = marketData.volume24h
            /\ marketData.volatility <= comparedData.volatility) =>
               params.tempo <= comparedParams.tempo
        /\ (comparedData.volume24h = marketData.volume24h
            /\ marketData.volatility >= comparedData.volatility) =>
               params.tempo >= comparedParams.tempo

C18_Witness ==
    /\ pc = "derived"
    /\ comparedData.volume24h = marketData.volume24h
    /\ marketData.volatility = 3500
    /\ comparedData.volatility = 10000
    /\ params.tempo < comparedParams.tempo


-----------------------------------------------------------------------------
(* Claims about generateMoment (checked under SpecMoment and SpecPipeline) *)

NodeSteps ==
    <<"getMarketData", "deriveMusicParams", "setMusicContext",
      "synthesizeAudio", "createWaveform">>

StepsMade == {moment.steps[k] : k \in 1..Len(moment.steps)}

\* C14: /generate-moment is requested only after the /health probe answered
\* 200 with the agent enabled; when the probe or the Python generation
\* fails the Node.js pipeline runs, its steps in the order market data,
\* music params, setMusicContext, synthesizeAudio, createWaveform; exactly
\* one path supplies the returned moment; the Node.js pipeline never runs
\* after a successful Python result.
C14_PathOrder ==
    /\ \E pre \in {<<>>, <<"health">>, <<"health", "generate-moment">>} :
       \E k \in 0..5 : moment.steps = pre \o SubSeq(NodeSteps, 1, k)
    /\ "health" \in StepsMade => moment.enabled
    /\ "generate-moment" \in StepsMade =>
           moment.enabled /\ moment.health = "200"
    /\ (moment.pc \notin {"call", "python"}
        /\ (~moment.enabled \/ moment.health \in {"204", "failed"}
            \/ moment.python \in {"failed", "unreadable"})) =>
           "getMarketData" \in StepsMade
    /\ market.pc # "idle" => "getMarketData" \in StepsMade
    /\ pc # "idle" =>
           /\ "synthesizeAudio" \in StepsMade
           /\ market.pc = "done" /\ market.outcome = "data"
           /\ contextSet
           /\ params = deriveMusicParams(marketData, djPreset)
    /\ "createWaveform" \in StepsMade =>
           pc = "done" /\ result.kind \in {"wav", "mp3"}
    /\ moment.python = "ok" =>
           /\ moment.outcome = "moment" /\ moment.source = "python"
           /\ market = NoMarket /\ pc = "idle"
           /\ StepsMade = {"health", "generate-moment"}
    /\ moment.outcome = "moment" =>
           \/ moment.source = "python" /\ moment.python = "ok"
           \/ /\ moment.source = "node" /\ moment.python # "ok"
              /\ SubSeq(moment.steps, Len(moment.steps) - 4,
                        Len(moment.steps)) = NodeSteps

C14_Witness ==
    /\ moment.outcome = "moment"
    /\ moment.source = "node"
    /\ moment.health = "200"
    /\ moment.python = "failed"
    /\ moment.steps = <<"health", "generate-moment">> \o NodeSteps
    /\ result.kind = "wav"

\* C16: every normalized field the synthesis loop reads (brightness,
\* drumDensity, intensity, energyScore, filterCutoff) lies in [0, 1] when
\* the loop reads it, whatever market data went through deriveMusicParams.
C16_ClampedBeforeUse ==
    (pc = "loop" /\ i > 0) =>
        /\ params.brightness \in 0..Unit
        /\ params.drumDensity \in 0..Unit
        /\ params.intensity \in 0..Unit
        /\ params.energyScore \in 0..Unit
        /\ params.filterCutoff \in 0..Unit


-----------------------------------------------------------------------------
(* Claims about the quantizer and the clock                                *)

\* round(s * 32767) of a channel sample s clamped to [-1, 1]: round to
\* nearest, halves upwards.
RoundedInt16(x) ==
    LET lo == IF x < Unit THEN x ELSE Unit
        cl == IF lo > -Unit THEN lo ELSE -Unit
    IN  (cl * 32767 + Unit \div 2) \div Unit

\* C19: each integer written equals round(s * 32767), s being the channel
\* sample clamped to [-1, 1].
C19_RoundToNearest ==
    (pc = "loop" /\ i > 0 /\ rootFreq # NaN /\ Undefined \notin
        {r[2] : r \in rootsUsed}) =>
        /\ pcm[1] = RoundedInt16(stereo[1])
        /\ pcm[2] = RoundedInt16(stereo[2])

\* C20: over the samples of a render the beat number does not decrease,
\* beatInBar and barNumber are in 0..3, the chord root of every sample is
\* progression[floor(beat/4) mod 4], it is the same for the four beats of a
\* bar, and it is the same 16 beats later.
C20_BarsAndRoots ==
    pc = "loop" =>
        /\ \A r \in rootsUsed : r[1] <= beat.beatNumber
        /\ beat.beatInBar \in 0..3
        /\ beat.barNumber \in 0..3
        /\ beat.beatInBar = beat.beatNumber % 4
        /\ \A r \in rootsUsed :
            r[2] = At(chordProgression, (r[1] \div 4) % 4)
        /\ \A r, q \in rootsUsed :
            /\ r[1] \div 4 = q[1] \div 4 => r[2] = q[2]
            /\ q[1] = r[1] + 16 => r[2] = q[2]

\* A render of more than 16 beats, whose chord root has changed and come
\* back.
C20_Witness ==
    /\ pc = "loop"
    /\ beat.beatNumber = 17
    /\ \E r, q \in rootsUsed : q[1] = r[1] + 16
    /\ \E r, q \in rootsUsed : r[2] # q[2]

-----------------------------------------------------------------------------
(* The renders of the sequencer: eight seconds under every trend and scale *)
(* and, for the scenario, under the tempos, intensities and drum densities *)
(* that open and close the windows of the voices.                          *)

SequencerInputs ==
    {[Scenario EXCEPT !.scale = s, !.trendDirection = d] :
        s \in ScaleTypes, d \in TrendDirections}
    \cup {[Scenario EXCEPT !.tempo = t, !.intensity = n, !.drumDensity = dd] :
        t \in {60, 62, 128}, n \in {400, 500, 750}, dd \in {0, 700}}

InitSequencer ==
    /\ params \in SequencerInputs
    /\ durationSeconds = 8
    /\ apiKey = FALSE
    /\ contextSet = FALSE
    /\ pc = "render"
    /\ localRuns = 1
    /\ audioBuffer = NoAudio
    /\ InitCommon
    /\ PipelineIdle

NextSequencer ==
    \/ RenderSetup
    \/ RenderSample
    \/ WrapContainer
    \/ SaveWav

SpecSequencer == InitSequencer /\ [][NextSequencer]_vars

\* C21: whatever the trend direction (absent or unrecognised included) and
\* the scale, the render selects a progression of four entries and an
\* arpeggio pattern of eight, and at every sample every index with which a
\* voice reads the frequency table of seven entries lies in 0..6.
C21_SelectionTotal ==
    pc \in {"loop", "save", "done"} /\ result.kind # "rejected" =>
        /\ Len(chordProgression) = 4
        /\ Len(arpPattern) = 8
        /\ Len(scale) = 7
        /\ mix.reads \subseteq 0..6

\* A sample of the fourth bar of a render whose trend and scale are neither
\* of the named ones, at which the pluck reads the table.
C21_Witness ==
    /\ pc = "loop"
    /\ params.trendDirection = "undefined"
    /\ params.scale = "blues"
    /\ beat.barNumber = 3
    /\ PluckReads(beat) # {}
    /\ 6 \in mix.reads

\* The number of positions at which two progressions differ.
Differing(a, b) == Cardinality({k \in 1..Len(a) : a[k] # b[k]})

\* The progression the render would have selected under the other variant
\* of the scale.
OtherVariant ==
    ChordProgressionFor(params.trendDirection,
                        IF params.scale = "major" THEN "minor" ELSE "major")

NamedTrend == params.trendDirection \in {"rising", "falling", "stable"}

\* C22 (as stated): for each of the three trend directions the major and the
\* minor progression differ in exactly one of their four entries.
C22_OneEntryDiffers ==
    pc = "loop" /\ NamedTrend => Differing(chordProgression, OtherVariant) = 1

\* C22 (amended): the major and the minor progression differ in exactly one
\* entry under the stable trend, and in exactly two entries, each by one
\* scale degree, under the rising and the falling trend.
C22_DifferingEntries ==
    pc = "loop" /\ NamedTrend =>
        IF params.trendDirection = "stable"
        THEN Differing(chordProgression, OtherVariant) = 1
        ELSE /\ Differing(chordProgression, OtherVariant) = 2
             /\ \A k \in 1..4 :
                    Abs(chordProgression[k] - OtherVariant[k]) <= 1

\* The falling minor progression has been selected.
C22_Witness ==
    /\ pc = "loop"
    /\ params.trendDirection = "falling"
    /\ params.scale = "minor"
    /\ chordProgression = <<5, 4, 2, 0>>
    /\ OtherVariant = <<4, 3, 2, 0>>

\* A sample has been rendered and the loop has not ended.
SampleRendered == pc = "loop" /\ i > 0

\* C23: at every sample the kick adds its enveloped oscillator times
\* drumDensity when beatPhase < 0.15 and nothing otherwise; the snare adds
\* its noise and body times drumDensity when beatInBar is 1 or 3 and
\* beatPhase < 0.1, and nothing otherwise (never on beatInBar 0 or 2).
C23_DrumSchedule ==
    SampleRendered =>
        /\ mix.kick =
               IF beat.beatPhase < 150
               THEN Mul(Mul(Mul(mix.osc, ExpNeg(beat.beatPhase * 30)), 600),
                        params.drumDensity)
               ELSE 0
        /\ mix.snare =
               IF beat.beatInBar \in {1, 3} /\ beat.beatPhase < 100
               THEN Mul(Mul(Mul(mix.noise * 2 - Unit,
                                ExpNeg(beat.beatPhase * 25)), 300)
                        + Mul(Mul(mix.osc, ExpNeg(beat.beatPhase * 25)), 200),
                        params.drumDensity)
               ELSE 0
        /\ beat.beatInBar \in {0, 2} => mix.snare = 0
        /\ params.drumDensity = 0 => mix.kick = 0 /\ mix.snare = 0

\* The start of the fourth beat of a bar: the kick and the snare both sound.
C23_Witness ==
    /\ SampleRendered
    /\ beat.beatInBar = 3
    /\ beat.beatPhase < 100
    /\ params.drumDensity = 700
    /\ mix.kick # 0
    /\ mix.snare # 0

\* The length of the render in thousandths of a beat.
RenderBeats == BeatsMilli(numSamples, params.tempo)

\* Where the accent and the formant layer add to the sample: the accent only
\* where beatInBar is odd, beatPhase < 0.15 and intensity > 0.5, and nothing
\* at an intensity of 0.5 or less; the formant layer only where barNumber = 2,
\* beatInBar = 0 and beatPhase < 0.4, within the ninth beat of a cycle of
\* sixteen.
AccentAndFormantWindows ==
    /\ mix.accent # 0 =>
           /\ beat.beatInBar % 2 = 1
           /\ beat.beatPhase < 150
           /\ params.intensity > 500
    /\ params.intensity <= 500 => mix.accent = 0
    /\ mix.vocalChop # 0 =>
           /\ beat.barNumber = 2
           /\ beat.beatInBar = 0
           /\ beat.beatPhase < 400
           /\ beat.beatNumber % 16 = 8

\* C24 (as stated): the accent and the formant layer add to the sample only
\* in their windows, and the formant layer adds nothing in a render that has
\* fewer than 9 beats.
C24_NoFormantBelowNineBeats ==
    SampleRendered =>
        /\ AccentAndFormantWindows
        /\ RenderBeats < 9000 => mix.vocalChop = 0

\* C24 (amended): the accent and the formant layer add to the sample only in
\* their windows, and the formant layer adds nothing in a render of at most
\* 8 beats: its window opens with the ninth beat.
C24_AccentAndFormant ==
    SampleRendered =>
        /\ AccentAndFormantWindows
        /\ RenderBeats <= 8000 => mix.vocalChop = 0

\* The formant layer sounds in the ninth beat of a render of 8.27 beats.
C24_Witness ==
    /\ SampleRendered
    /\ params.tempo = 62
    /\ params.intensity = 500
    /\ RenderBeats \in 8001..8999
    /\ beat.beatNumber = 8
    /\ beat.beatPhase < 400
    /\ mix.vocalChop # 0

-----------------------------------------------------------------------------
(* The API server (src/unnamed/part_000): Express handlers on the event    *)
(* loop of one Node.js process.  A handler runs from the callback that     *)
(* starts or resumes it to its next await, and no other callback runs in   *)
(* between: each action below is one such turn.  The render loop of        *)
(* generateFallbackAudio is a part of a turn; the model follows it in      *)
(* LoopSteps steps, during which the turn is not over.  The Python agent   *)
(* is taken to be disabled or unavailable, so that generateMoment runs the *)
(* pipeline of agent.ts, lines 117-160.                                    *)

\* The steps in which the model follows one render loop.
LoopSteps == 2

\* The last millisecond of the clock of the model.
MaxClock == 2

\* if (moments.length > 50): the capacity of the store.
StoreLimit == 50

\* The bodies of the POST /api/generate requests: two instruments, and a
\* body without an instrument or without a preset.
Bodies ==
    {[instrument |-> "BTC-USDT", djPreset |-> "neon-house"],
     [instrument |-> "ETH-USDT", djPreset |-> "neon-house"],
     [instrument |-> "", djPreset |-> "neon-house"],
     [instrument |-> "BTC-USDT", djPreset |-> ""]}

\* No turn is inside a render loop: the event loop can run a callback.
EventLoopFree == \A r \in Slots : requests[r].pc # "render"

\* The context generateMoment passes to setMusicContext (agent.ts, lines
\* 129-133); the market data are those fetched by this generation.
ContextOf(r) ==
    [instrument |-> requests[r].instrument,
     djPreset   |-> requests[r].djPreset,
     marketData |-> r]

\* A setMusicContext that keeps a context once it is set.
setMusicContextOnce(current, context) ==
    IF current = NoContext THEN context ELSE current

\* Line 32: currentContext = context
setMusicContext(current, context) == context

\* A request reaches the server.
Arrive(r) ==
    /\ requests[r].pc = "new"
    /\ \E body \in Bodies :
        requests' = [requests EXCEPT ![r].pc = "arrived",
                                     ![r].instrument = body.instrument,
                                     ![r].djPreset = body.djPreset]
    /\ UNCHANGED <<currentContext, now, files, moments, completed, health,
                   reply>>
    /\ UNCHANGED programVars

\* Lines 44-56: the handler validates the body and calls generateMoment,
\* which suspends at its first request (agent.ts, lines 110 and 121).
StartHandler(r) ==
    /\ requests[r].pc = "arrived"
    /\ EventLoopFree
    /\ requests' =
           [requests EXCEPT ![r].pc =
               IF requests[r].instrument = "" \/ requests[r].djPreset = ""
               THEN "rejected" ELSE "market"]
    /\ UNCHANGED <<currentContext, now, files, moments, completed, health,
                   reply>>
    /\ UNCHANGED programVars

\* agent.ts, lines 121-137, and synthesizeAudio up to its first await: the
\* market data have arrived; deriveMusicParams, setMusicContext, then either
\* the script request of getLLMMusicScript, whose body is read from
\* currentContext (lines 41 and 49-56), or generateFallbackAudio, which
\* enters its render loop.
MarketResolved(r) ==
    /\ requests[r].pc = "market"
    /\ EventLoopFree
    /\ LET written == setMusicContext(currentContext, ContextOf(r))
           asked   == apiKey /\ written.instrument # ""
                             /\ written.djPreset # ""
       IN  /\ currentContext' = written
           /\ requests' =
                  [requests EXCEPT
                      ![r].pc = IF asked THEN "script"
                                ELSE IF apiKey THEN "music" ELSE "render",
                      ![r].script = IF asked THEN written ELSE NoContext]
    /\ UNCHANGED <<now, files, moments, completed, health, reply>>
    /\ UNCHANGED programVars

\* Lines 105-143: the script request has settled; the music request is made.
ScriptResolved(r) ==
    /\ requests[r].pc = "script"
    /\ EventLoopFree
    /\ requests' = [requests EXCEPT ![r].pc = "music"]
    /\ UNCHANGED <<currentContext, now, files, moments, completed, health,
                   reply>>
    /\ UNCHANGED programVars

\* Lines 145-154 and 166-178: the music request has settled: its audio is
\* to be saved as MP3 (await fs.mkdir), or it failed and
\* generateFallbackAudio enters its render loop.
MusicResolved(r) ==
    /\ requests[r].pc = "music"
    /\ EventLoopFree
    /\ \E ok \in BOOLEAN :
        requests' = [requests EXCEPT ![r].pc = IF ok THEN "mkdirMp3"
                                               ELSE "render"]
    /\ UNCHANGED <<currentContext, now, files, moments, completed, health,
                   reply>>
    /\ UNCHANGED programVars

\* Lines 272-420: the render loop goes on, within its turn.
RenderStep(r) ==
    /\ requests[r].pc = "render"
    /\ requests[r].k < LoopSteps
    /\ requests' = [requests EXCEPT ![r].k = requests[r].k + 1]
    /\ UNCHANGED <<currentContext, now, files, moments, completed, health,
                   reply>>
    /\ UNCHANGED programVars

\* Lines 422-428: the loop has ended; the container is built and the turn
\* ends at await fs.mkdir.
RenderEnd(r) ==
    /\ requests[r].pc = "render"
    /\ requests[r].k >= LoopSteps
    /\ requests' = [requests EXCEPT ![r].pc = "mkdirWav"]
    /\ UNCHANGED <<currentContext, now, files, moments, completed, health,
                   reply>>
    /\ UNCHANGED programVars

\* Lines 155-157 and 429-431: the directory exists; the file is named after
\* Date.now() and its writing is started; or the directory could not be
\* made and the request is answered with 500 (part_000, lines 70-77).
MkdirResolved(r) ==
    /\ requests[r].pc \in {"mkdirMp3", "mkdirWav"}
    /\ EventLoopFree
    /\ \E ok \in BOOLEAN :
        requests' =
            [requests EXCEPT
                ![r].pc = IF ok THEN "write" ELSE "failed",
                ![r].filename =
                    IF ok
                    THEN <<now, IF requests[r].pc = "mkdirMp3"
                                THEN "mp3" ELSE "wav">>
                    ELSE NoFile]
    /\ UNCHANGED <<currentContext, now, files, moments, completed, health,
                   reply>>
    /\ UNCHANGED programVars

\* moments.push(moment); if (moments.length > 50) moments.shift()
\* A store that drops its newest moment.
EvictNewest(store) ==
    IF Len(store) > StoreLimit THEN SubSeq(store, 1, Len(store) - 1)
    ELSE store

Evict(store) == IF Len(store) > StoreLimit THEN Tail(store) ELSE store

Push(store, m) == Evict(Append(store, m))

\* The file is written; synthesizeAudio returns its audioUrl, generateMoment
\* its moment (agent.ts, lines 139-160), and the handler stores the moment
\* and answers (part_000, lines 57-69).
WriteResolved(r) ==
    /\ requests[r].pc = "write"
    /\ EventLoopFree
    /\ requests' = [requests EXCEPT ![r].pc = "answered"]
    /\ files' = {f \in files : f[1] # requests[r].filename}
                \cup {<<requests[r].filename, r>>}
    /\ moments' = Push(moments, [momentId |-> r,
                                 audioUrl |-> requests[r].filename])
    /\ completed' = Append(completed, r)
    /\ UNCHANGED <<currentContext, now, health, reply>>
    /\ UNCHANGED programVars

\* A millisecond passes.
Tick ==
    /\ now < MaxClock
    /\ now' = now + 1
    /\ UNCHANGED <<requests, currentContext, files, moments, completed,
                   health, reply>>
    /\ UNCHANGED programVars

\* A GET /api/health request reaches the server.
HealthArrive ==
    /\ health = "none"
    /\ health' = "arrived"
    /\ UNCHANGED <<requests, currentContext, now, files, moments, completed,
                   reply>>
    /\ UNCHANGED programVars

\* part_000, lines 145-147: the handler of GET /api/health answers.
HealthAnswer ==
    /\ health = "arrived"
    /\ EventLoopFree
    /\ health' = "answered"
    /\ UNCHANGED <<requests, currentContext, now, files, moments, completed,
                   reply>>
    /\ UNCHANGED programVars

InitServer ==
    /\ params = Scenario
    /\ durationSeconds = 8
    /\ apiKey \in BOOLEAN
    /\ contextSet = FALSE
    /\ pc = "idle"
    /\ localRuns = 0
    /\ audioBuffer = NoAudio
    /\ InitCommon
    /\ PipelineIdle

NextServer ==
    \/ \E r \in Slots : Arrive(r)
    \/ \E r \in Slots : StartHandler(r)
    \/ \E r \in Slots : MarketResolved(r)
    \/ \E r \in Slots : ScriptResolved(r)
    \/ \E r \in Slots : MusicResolved(r)
    \/ \E r \in Slots : RenderStep(r)
    \/ \E r \in Slots : RenderEnd(r)
    \/ \E r \in Slots : MkdirResolved(r)
    \/ \E r \in Slots : WriteResolved(r)
    \/ Tick
    \/ HealthArrive
    \/ HealthAnswer

SpecServer == InitServer /\ [][NextServer]_vars

\* C25: a render in progress for one request does not block the others:
\* while a request is inside its render loop, a request that has arrived
\* (a POST /api/generate or a GET /api/health) can be started and answered.
C25_RenderDoesNotBlock ==
    \A a \in Slots :
        requests[a].pc = "render" /\ requests[a].k < LoopSteps =>
            /\ \A b \in Slots :
                   requests[b].pc = "arrived" => ENABLED StartHandler(b)
            /\ health = "arrived" => ENABLED HealthAnswer

\* C26: under every interleaving of concurrent generations, the script
\* request issued for a generation carries the instrument, the preset and
\* the market data of that generation.
C26_ScriptCarriesOwnContext ==
    \A r \in Slots :
        requests[r].script # NoContext => requests[r].script = ContextOf(r)

\* Two generations for different instruments have issued their script
\* requests, the second while the first was waiting for its answer.
C26_Witness ==
    /\ requests[1].pc = "script"
    /\ requests[1].script.instrument = "BTC-USDT"
    /\ requests[2].script.instrument = "ETH-USDT"
    /\ currentContext = ContextOf(2)
    /\ currentContext # requests[1].script

\* C27: two generations never share an audio file: the calls of
\* synthesizeAudio that save audio get different file names, and the file
\* of every stored moment's audioUrl holds the audio rendered for it.
C27_NoSharedAudioFile ==
    /\ \A a, b \in Slots :
           /\ a # b
           /\ requests[a].filename # NoFile
           /\ requests[b].filename # NoFile
           => requests[a].filename # requests[b].filename
    /\ \A k \in 1..Len(moments) :
           <<moments[k].audioUrl, moments[k].momentId>> \in files

-----------------------------------------------------------------------------
(* The moment store of the API server: POST /api/generate requests on a    *)
(* store that earlier generations have filled, and the two GET handlers.   *)
(* generateMomentId (types.ts, line 88) is taken to give every moment an   *)
(* id of its own: the generations before the model have the ids            *)
(* FirstStored, FirstStored + 1, ..., those of the model their slot.       *)

FirstStored == 101

\* The store after n generations, none of which has been evicted.
StoreAfter(n) ==
    [j \in 1..n |-> [momentId |-> FirstStored + j - 1,
                     audioUrl |-> <<-1 - j, "wav">>]]

\* The numbers of moments in the store when the model starts.
Prefills == {0, StoreLimit - 1, StoreLimit}

\* The ids the model looks up: the oldest generation and those of the slots.
LookupIds == {FirstStored} \cup Slots

\* Lines 81-88: res.json(moments.slice().reverse())
GetMoments ==
    /\ reply.kind = "none"
    /\ EventLoopFree
    /\ reply' = [kind |-> "list", id |-> 0, body |-> Reverse(moments),
                 of |-> completed]
    /\ UNCHANGED <<requests, currentContext, now, files, moments, completed,
                   health>>
    /\ UNCHANGED programVars

\* moments.find(m => m.momentId === req.params.momentId)
Find(store, id) ==
    LET hits == {k \in 1..Len(store) : store[k].momentId = id}
    IN  IF hits = {} THEN <<>>
        ELSE <<store[CHOOSE k \in hits : \A h \in hits : k <= h]>>

\* Lines 91-97: the moment of the id, or 404.
GetMoment ==
    /\ reply.kind = "none"
    /\ EventLoopFree
    /\ \E id \in LookupIds :
        reply' = [kind |-> IF Find(moments, id) = <<>> THEN "notFound"
                           ELSE "found",
                  id |-> id, body |-> Find(moments, id), of |-> completed]
    /\ UNCHANGED <<requests, currentContext, now, files, moments, completed,
                   health>>
    /\ UNCHANGED programVars

InitStore ==
    /\ params = Scenario
    /\ durationSeconds = 8
    /\ apiKey = FALSE
    /\ contextSet = FALSE
    /\ pc = "idle"
    /\ localRuns = 0
    /\ audioBuffer = NoAudio
    /\ EngineIdle
    /\ PipelineIdle
    /\ requests = [r \in Slots |-> NoRequest]
    /\ currentContext = NoContext
    /\ now = 0
    /\ files = {}
    /\ \E n \in Prefills :
        /\ moments = StoreAfter(n)
        /\ completed = [j \in 1..n |-> FirstStored + j - 1]
    /\ health = "none"
    /\ reply = NoReply

NextStore ==
    \/ \E r \in Slots : Arrive(r)
    \/ \E r \in Slots : StartHandler(r)
    \/ \E r \in Slots : MarketResolved(r)
    \/ \E r \in Slots : RenderStep(r)
    \/ \E r \in Slots : RenderEnd(r)
    \/ \E r \in Slots : MkdirResolved(r)
    \/ \E r \in Slots : WriteResolved(r)
    \/ GetMoments
    \/ GetMoment

SpecStore == InitStore /\ [][NextStore]_vars

\* The last n entries of a sequence, all of them when it has fewer.
LastN(seq, n) ==
    IF Len(seq) <= n THEN seq ELSE SubSeq(seq, Len(seq) - n + 1, Len(seq))

Ids(store) == [k \in 1..Len(store) |-> store[k].momentId]

\* C28: the store holds exactly the last min(n, 50) successfully generated
\* moments in completion order, whatever the interleaving: it never holds
\* more than 50, the oldest is the one evicted, a request answered with 400
\* or 500 adds nothing, GET /api/moments answers with the store most recent
\* first, and a moment is found by its id exactly while it is in the store.
C28_StoreIsLastFifty ==
    /\ Len(moments) <= StoreLimit
    /\ Ids(moments) = LastN(completed, StoreLimit)
    /\ \A r \in Slots :
           requests[r].pc \in {"rejected", "failed"} =>
               \A k \in 1..Len(moments) : moments[k].momentId # r
    /\ reply.kind = "list" =>
           Ids(reply.body) = Reverse(LastN(reply.of, StoreLimit))
    /\ reply.kind = "found" =>
           /\ Ids(reply.body) = <<reply.id>>
           /\ \E k \in 1..Len(LastN(reply.of, StoreLimit)) :
                  LastN(reply.of, StoreLimit)[k] = reply.id
    /\ reply.kind = "notFound" =>
           \A k \in 1..Len(LastN(reply.of, StoreLimit)) :
               LastN(reply.of, StoreLimit)[k] # reply.id

\* A full store has taken one more moment and evicted its oldest, whose id
\* is no longer found, while the other request failed.
C28_Witness ==
    /\ Len(completed) = StoreLimit + 1
    /\ Len(moments) = StoreLimit
    /\ moments[StoreLimit].momentId \in Slots
    /\ moments[1].momentId = FirstStored + 1
    /\ \E r \in Slots : requests[r].pc \in {"rejected", "failed"}
    /\ reply.kind = "notFound"
    /\ reply.id = FirstStored

-----------------------------------------------------------------------------
(* Claims about the reads of the buffer mode (checked under SpecWave)      *)

\* Every offset at which a call of createWaveform reads 16 bits of buf.
ReadOffsets(buf) ==
    UNION {PeakOffsets(buf, k) : k \in 0..(numPeaks - 1)}

\* C29: in buffer mode, whatever the length L of the buffer, every 16-bit
\* read is at an offset j with 0 <= j and j + 1 < L, the call does not
\* throw, and the offsets read are the even ones of the first
\* 400 * floor((L / 2) / 200) bytes: the bytes after them are not examined.
C29_ReadsInsideBuffer ==
    (pc = "waved" /\ audioBuffer.present) =>
        /\ \A j \in ReadOffsets(audioBuffer) :
               0 <= j /\ j + 1 < audioBuffer.length
        /\ ~waveform.threw
        /\ ReadOffsets(audioBuffer) =
               {j \in 0..(400 * ((audioBuffer.length \div 2) \div 200) - 1) :
                   j % 2 = 0}

\* A buffer of 403 bytes: 400 of them are read, two at a time, and the last
\* three are not.
C29_Witness ==
    /\ pc = "waved"
    /\ audioBuffer.present
    /\ audioBuffer.length = 403
    /\ Cardinality(ReadOffsets(audioBuffer)) = 200
    /\ 398 \in ReadOffsets(audioBuffer)
    /\ 400 \notin ReadOffsets(audioBuffer)

-----------------------------------------------------------------------------
(* Claims about the trend and the scale (checked under SpecDerive)         *)

\* The trend and the scale of derived parameters agree: rising goes with
\* major and falling with minor, so that the progression selected for them
\* is neither the rising minor nor the falling major one.
TrendAgreesWithScale(p) ==
    /\ p.trendDirection = "rising" => p.scale = "major"
    /\ p.trendDirection = "falling" => p.scale = "minor"
    /\ ChordProgressionFor(p.trendDirection, p.scale)
           \notin {<<0, 2, 4, 5>>, <<4, 3, 2, 0>>}

\* C30: for every market data record and every preset, deriveMusicParams
\* gives a rising trend only with the major scale and a falling trend only
\* with the minor scale, so the rising minor and the falling major
\* progressions are never selected for its result.
C30_TrendScaleConsistent ==
    pc = "derived" =>
        /\ TrendAgreesWithScale(params)
        /\ TrendAgreesWithScale(comparedParams)

\* A fall of five percent under the preset whose scale is major.
C30_Witness ==
    /\ pc = "derived"
    /\ djPreset = "neon-house"
    /\ marketData.priceChangePercent24h = -5000
    /\ params.trendDirection = "falling"
    /\ params.scale = "minor"

====
